---- MODULE Spec2Model ----
(***************************************************************************)
(* The XiaoXuan Core VM instruction set of src/src/opcode.rs and the        *)
(* version numbers of src/src/lib.rs.                                       *)
(*                                                                         *)
(* Spec: the control-flow protocol (a stack of function/block frames, one   *)
(* operand stack, the instructions end, block, break, recur, block_alt,     *)
(* break_alt, block_nez and call, local_load and local_store) executed over *)
(* a small image made of the documented bytecode shapes and of malformed    *)
(* ones.                                                                    *)
(*                                                                         *)
(* IsaSpec: the functions of the instruction set applied to inputs drawn    *)
(* from bounded sets: instruction encoding and decoding, the emitter's      *)
(* alignment, the floating-point load check, the signed remainder, the      *)
(* opcode values and names (get_name, from_name), and EffectiveVersion:     *)
(* to_u64, from_u64, the ordering and compatible.                           *)
(***************************************************************************)
EXTENDS Integers, Sequences, FiniteSets, TLC

VARIABLES
    pc,        \* address of the next instruction, or HaltAddress
    frames,    \* the frame stack, outermost first
    operands,  \* the operand stack, bottom first
    last,      \* history: the instruction executed last, with the state it started from
    opened,    \* history: structure (address of its opening instruction) -> depth just before it last ran
    alt,       \* history: the block_alt executed last, its condition, the addresses executed since
    entered,   \* history: depth of the frame stack when the function called last was entered
    outcome,   \* "running", or the error the run ended in
    req        \* an application of one of the functions of the instruction set: inputs, stage, results

vars == <<pc, frames, operands, last, opened, alt, entered, outcome, req>>

\* ---------------------------------------------------------------- bounds

\* Largest value of an argument of the entry function.
MaxArg == 2

\* ------------------------------------------------------------- helpers

HaltAddress == 0 - 1

\* No function of the instruction set is being applied.
NoRequest == [fn |-> "none"]

Zeros(n) == [i \in 1..n |-> 0]

\* The top n operands of s, bottom first.
Top(s, n) == SubSeq(s, Len(s) - n + 1, Len(s))

MaxI32 == 2147483647

MinI32 == (0 - MaxI32) - 1

\* a + b wrapped to 32 bits, for a and b in the i32 range.
WrapAdd32(a, b) ==
    IF b > 0 /\ a > MaxI32 - b THEN (a - MaxI32 - 1) + (b - MaxI32 - 1)
    ELSE IF b < 0 /\ a < MinI32 - b THEN (a + MaxI32 + 1) + (b + MaxI32 + 1)
    ELSE a + b

\* ------------------------------------------------------- static tables

\* type_index -> (parameter count, result count)
Types ==
    <<
        [params |-> 0, results |-> 0],   \* 1: ()->()
        [params |-> 0, results |-> 1],   \* 2: ()->(i32)
        [params |-> 0, results |-> 2],   \* 3: ()->(i32,i32)
        [params |-> 0, results |-> 3],   \* 4: ()->(i32,i32,i32)
        [params |-> 1, results |-> 1],   \* 5: (i32)->(i32)
        [params |-> 2, results |-> 1],   \* 6: (i32,i32)->(i32)
        [params |-> 1, results |-> 0]    \* 7: (i32)->()
    >>

TypeVoid == 1

\* local_variable_list_index -> number of local variables following the arguments
LocalLists == <<0, 1, 2>>

\* Instruction length in bytes, by opcode.
Length(op) ==
    CASE op \in {"nop", "add_i32", "eqz_i32", "end"} -> 2
      [] op = "sub_imm_i32" -> 4
      [] op \in {"imm_i32", "local_load_i32_s", "local_store_i32",
                 "break_", "recur", "break_alt", "call"} -> 8
      [] op \in {"block", "block_nez"} -> 12
      [] op = "block_alt" -> 16

\* Whether the instruction has an i32 parameter (and so starts on a 4-byte boundary).
HasI32Param(op) == Length(op) >= 8

\* An instruction of the image: its address, its opcode and its parameters in
\* the order the opcode declares them (0 for a parameter it does not have).
Ins(addr, op, p0, p1, p2) == [addr |-> addr, op |-> op, p0 |-> p0, p1 |-> p1, p2 |-> p2]

\* ------------------------------------------------------------ the image

\* function public indices
FnBreak == 1
FnNested == 2       \* and 3, 4, 5: the same body breaking 0, 1, 2, 3 layers out
FnLoop == 6
FnIfElse == 7
FnWhen == 8
FnAccumulate == 9
FnMain == 10
FnCallNested == 11
FnLayers == 12
\* Malformed functions: a target or a local variable that does not exist.
FnBadBreak == 13
FnBadRecur == 14
FnBadLoad == 15
FnBadStore == 16
FnBadLoadIndex == 17
FnBadStoreIndex == 18
FnCallBadBreak == 19    \* and 20, 21, 22: callers of functions 13..16

\* The image, in address order. The offset parameters are what the emitter
\* computes: next_inst_offset = address of the instruction to continue at -
\* address of the jump; start_inst_offset = address of the recur - address of
\* the instruction to restart at.
Listing ==
    <<
        \* FnBreak: a block ()->(i32,i32) pushes 11, 13, 17 and breaks out
        Ins(0, "block", 3, 1, 0),
        Ins(12, "imm_i32", 11, 0, 0),
        Ins(20, "imm_i32", 13, 0, 0),
        Ins(28, "imm_i32", 17, 0, 0),
        Ins(36, "break_", 0, 16, 0),
        Ins(44, "nop", 0, 0, 0),
        Ins(46, "nop", 0, 0, 0),
        Ins(48, "nop", 0, 0, 0),
        Ins(50, "end", 0, 0, 0),
        Ins(52, "nop", 0, 0, 0),
        Ins(54, "end", 0, 0, 0),
        \* FnNested: blocks ()->(i32,i32,i32), ()->(i32,i32), ()->(i32); break 0
        Ins(56, "imm_i32", 5, 0, 0),
        Ins(64, "block", 4, 1, 0),
        Ins(76, "imm_i32", 7, 0, 0),
        Ins(84, "block", 3, 1, 0),
        Ins(96, "imm_i32", 9, 0, 0),
        Ins(104, "block", 2, 1, 0),
        Ins(116, "imm_i32", 11, 0, 0),
        Ins(124, "imm_i32", 13, 0, 0),
        Ins(132, "imm_i32", 17, 0, 0),
        Ins(140, "break_", 0, 12, 0),
        Ins(148, "nop", 0, 0, 0),
        Ins(150, "end", 0, 0, 0),
        Ins(152, "imm_i32", 19, 0, 0),
        Ins(160, "end", 0, 0, 0),
        Ins(162, "nop", 0, 0, 0),
        Ins(164, "imm_i32", 23, 0, 0),
        Ins(172, "end", 0, 0, 0),
        Ins(174, "end", 0, 0, 0),
        \* the same, break 1
        Ins(176, "imm_i32", 5, 0, 0),
        Ins(184, "block", 4, 1, 0),
        Ins(196, "imm_i32", 7, 0, 0),
        Ins(204, "block", 3, 1, 0),
        Ins(216, "imm_i32", 9, 0, 0),
        Ins(224, "block", 2, 1, 0),
        Ins(236, "imm_i32", 11, 0, 0),
        Ins(244, "imm_i32", 13, 0, 0),
        Ins(252, "imm_i32", 17, 0, 0),
        Ins(260, "break_", 1, 22, 0),
        Ins(268, "nop", 0, 0, 0),
        Ins(270, "end", 0, 0, 0),
        Ins(272, "imm_i32", 19, 0, 0),
        Ins(280, "end", 0, 0, 0),
        Ins(282, "nop", 0, 0, 0),
        Ins(284, "imm_i32", 23, 0, 0),
        Ins(292, "end", 0, 0, 0),
        Ins(294, "end", 0, 0, 0),
        \* the same, break 2
        Ins(296, "imm_i32", 5, 0, 0),
        Ins(304, "block", 4, 1, 0),
        Ins(316, "imm_i32", 7, 0, 0),
        Ins(324, "block", 3, 1, 0),
        Ins(336, "imm_i32", 9, 0, 0),
        Ins(344, "block", 2, 1, 0),
        Ins(356, "imm_i32", 11, 0, 0),
        Ins(364, "imm_i32", 13, 0, 0),
        Ins(372, "imm_i32", 17, 0, 0),
        Ins(380, "break_", 2, 34, 0),
        Ins(388, "nop", 0, 0, 0),
        Ins(390, "end", 0, 0, 0),
        Ins(392, "imm_i32", 19, 0, 0),
        Ins(400, "end", 0, 0, 0),
        Ins(402, "nop", 0, 0, 0),
        Ins(404, "imm_i32", 23, 0, 0),
        Ins(412, "end", 0, 0, 0),
        Ins(414, "end", 0, 0, 0),
        \* the same, break 3 (the target is the function frame)
        Ins(416, "imm_i32", 5, 0, 0),
        Ins(424, "block", 4, 1, 0),
        Ins(436, "imm_i32", 7, 0, 0),
        Ins(444, "block", 3, 1, 0),
        Ins(456, "imm_i32", 9, 0, 0),
        Ins(464, "block", 2, 1, 0),
        Ins(476, "imm_i32", 11, 0, 0),
        Ins(484, "imm_i32", 13, 0, 0),
        Ins(492, "imm_i32", 17, 0, 0),
        Ins(500, "break_", 3, 34, 0),
        Ins(508, "nop", 0, 0, 0),
        Ins(510, "end", 0, 0, 0),
        Ins(512, "imm_i32", 19, 0, 0),
        Ins(520, "end", 0, 0, 0),
        Ins(522, "nop", 0, 0, 0),
        Ins(524, "imm_i32", 23, 0, 0),
        Ins(532, "end", 0, 0, 0),
        Ins(534, "end", 0, 0, 0),
        \* FnLoop(n): a block (i32)->(i32) with one local variable, left by break 1, repeated by recur 0
        Ins(536, "local_load_i32_s", 0, 0, 0),
        Ins(544, "block", 5, 2, 0),
        Ins(556, "local_load_i32_s", 0, 0, 0),
        Ins(564, "eqz_i32", 0, 0, 0),
        Ins(566, "nop", 0, 0, 0),
        Ins(568, "block_nez", 1, 32, 0),
        Ins(580, "local_load_i32_s", 1, 1, 0),
        Ins(588, "break_", 1, 50, 0),
        Ins(596, "nop", 0, 0, 0),
        Ins(598, "end", 0, 0, 0),
        Ins(600, "imm_i32", 5, 0, 0),
        Ins(608, "local_store_i32", 0, 1, 0),
        Ins(616, "local_load_i32_s", 0, 0, 0),
        Ins(624, "sub_imm_i32", 1, 0, 0),
        Ins(628, "recur", 0, 72, 0),
        Ins(636, "end", 0, 0, 0),
        Ins(638, "nop", 0, 0, 0),
        Ins(640, "end", 0, 0, 0),
        Ins(642, "nop", 0, 0, 0),
        \* FnIfElse(c): if (c != 0) { 1 } else { 2 }
        Ins(644, "local_load_i32_s", 0, 0, 0),
        Ins(652, "block_alt", 2, 1, 36),
        Ins(668, "imm_i32", 1, 0, 0),
        Ins(676, "nop", 0, 0, 0),
        Ins(678, "nop", 0, 0, 0),
        Ins(680, "break_alt", 20, 0, 0),
        Ins(688, "imm_i32", 2, 0, 0),
        Ins(696, "nop", 0, 0, 0),
        Ins(698, "end", 0, 0, 0),
        Ins(700, "nop", 0, 0, 0),
        Ins(702, "end", 0, 0, 0),
        \* FnWhen(c): if (c != 0) { local = 3 }
        Ins(704, "local_load_i32_s", 0, 0, 0),
        Ins(712, "block_nez", 2, 32, 0),
        Ins(724, "imm_i32", 3, 0, 0),
        Ins(732, "local_store_i32", 0, 0, 0),
        Ins(740, "nop", 0, 0, 0),
        Ins(742, "end", 0, 0, 0),
        Ins(744, "nop", 0, 0, 0),
        Ins(746, "end", 0, 0, 0),
        \* FnAccumulate(sum, number): the tail call is recur 1, to the function frame
        Ins(748, "local_load_i32_s", 0, 0, 0),
        Ins(756, "local_load_i32_s", 0, 1, 0),
        Ins(764, "add_i32", 0, 0, 0),
        Ins(766, "nop", 0, 0, 0),
        Ins(768, "local_store_i32", 0, 2, 0),
        Ins(776, "local_load_i32_s", 0, 1, 0),
        Ins(784, "eqz_i32", 0, 0, 0),
        Ins(786, "nop", 0, 0, 0),
        Ins(788, "block_alt", 2, 1, 32),
        Ins(804, "local_load_i32_s", 1, 2, 0),
        Ins(812, "break_alt", 46, 0, 0),
        Ins(820, "imm_i32", 7, 0, 0),
        Ins(828, "local_load_i32_s", 1, 2, 0),
        Ins(836, "local_load_i32_s", 1, 1, 0),
        Ins(844, "sub_imm_i32", 1, 0, 0),
        Ins(848, "recur", 1, 100, 0),
        Ins(856, "end", 0, 0, 0),
        Ins(858, "nop", 0, 0, 0),
        Ins(860, "end", 0, 0, 0),
        Ins(862, "nop", 0, 0, 0),
        \* FnMain(sum, number): accumulate(sum, number), called from inside a block
        Ins(864, "block", 2, 1, 0),
        Ins(876, "local_load_i32_s", 1, 0, 0),
        Ins(884, "local_load_i32_s", 1, 1, 0),
        Ins(892, "call", 9, 0, 0),
        Ins(900, "nop", 0, 0, 0),
        Ins(902, "end", 0, 0, 0),
        Ins(904, "end", 0, 0, 0),
        Ins(906, "nop", 0, 0, 0),
        \* FnCallNested(): calls the function that breaks 3 layers out, from inside a block
        Ins(908, "block", 4, 1, 0),
        Ins(920, "call", 5, 0, 0),
        Ins(928, "end", 0, 0, 0),
        Ins(930, "end", 0, 0, 0),
        \* FnLayers(x): three nested blocks, each with one local variable; loads and a store through 0..3 layers
        Ins(932, "block", 1, 2, 0),
        Ins(944, "imm_i32", 10, 0, 0),
        Ins(952, "local_store_i32", 0, 0, 0),
        Ins(960, "block", 1, 2, 0),
        Ins(972, "imm_i32", 20, 0, 0),
        Ins(980, "local_store_i32", 0, 0, 0),
        Ins(988, "block", 1, 2, 0),
        Ins(1000, "imm_i32", 30, 0, 0),
        Ins(1008, "local_store_i32", 0, 0, 0),
        Ins(1016, "local_load_i32_s", 3, 0, 0),
        Ins(1024, "local_load_i32_s", 2, 0, 0),
        Ins(1032, "local_load_i32_s", 1, 0, 0),
        Ins(1040, "local_load_i32_s", 0, 0, 0),
        Ins(1048, "imm_i32", 40, 0, 0),
        Ins(1056, "local_store_i32", 3, 0, 0),
        Ins(1064, "local_load_i32_s", 3, 0, 0),
        Ins(1072, "end", 0, 0, 0),
        Ins(1074, "end", 0, 0, 0),
        Ins(1076, "end", 0, 0, 0),
        Ins(1078, "end", 0, 0, 0),
        \* FnBadBreak: break 2 inside one block
        Ins(1080, "block", 1, 1, 0),
        Ins(1092, "break_", 2, 8, 0),
        Ins(1100, "end", 0, 0, 0),
        Ins(1102, "end", 0, 0, 0),
        \* FnBadRecur: recur 2 inside one block
        Ins(1104, "block", 1, 1, 0),
        Ins(1116, "recur", 2, 12, 0),
        Ins(1124, "end", 0, 0, 0),
        Ins(1126, "end", 0, 0, 0),
        \* FnBadLoad: local_load through 2 layers inside one block
        Ins(1128, "block", 1, 1, 0),
        Ins(1140, "local_load_i32_s", 2, 0, 0),
        Ins(1148, "end", 0, 0, 0),
        Ins(1150, "end", 0, 0, 0),
        \* FnBadStore: local_store through 2 layers inside one block
        Ins(1152, "block", 1, 1, 0),
        Ins(1164, "imm_i32", 1, 0, 0),
        Ins(1172, "local_store_i32", 2, 0, 0),
        Ins(1180, "end", 0, 0, 0),
        Ins(1182, "end", 0, 0, 0),
        \* FnBadLoadIndex: a block with one local variable loads index 1
        Ins(1184, "block", 1, 2, 0),
        Ins(1196, "local_load_i32_s", 0, 1, 0),
        Ins(1204, "end", 0, 0, 0),
        Ins(1206, "end", 0, 0, 0),
        \* FnBadStoreIndex: a function without local variables stores to index 0
        Ins(1208, "imm_i32", 1, 0, 0),
        Ins(1216, "local_store_i32", 0, 0, 0),
        Ins(1224, "nop", 0, 0, 0),
        Ins(1226, "end", 0, 0, 0),
        \* FnCallBadBreak: calls FnBadBreak from inside a block
        Ins(1228, "block", 1, 1, 0),
        Ins(1240, "call", 13, 0, 0),
        Ins(1248, "end", 0, 0, 0),
        Ins(1250, "end", 0, 0, 0),
        \* FnCallBadRecur: calls FnBadRecur from inside a block
        Ins(1252, "block", 1, 1, 0),
        Ins(1264, "call", 14, 0, 0),
        Ins(1272, "end", 0, 0, 0),
        Ins(1274, "end", 0, 0, 0),
        \* FnCallBadLoad: calls FnBadLoad from inside a block
        Ins(1276, "block", 1, 1, 0),
        Ins(1288, "call", 15, 0, 0),
        Ins(1296, "end", 0, 0, 0),
        Ins(1298, "end", 0, 0, 0),
        \* FnCallBadStore: calls FnBadStore from inside a block
        Ins(1300, "block", 1, 1, 0),
        Ins(1312, "call", 16, 0, 0),
        Ins(1320, "end", 0, 0, 0),
        Ins(1322, "end", 0, 0, 0)
    >>

CodeAddresses == {Listing[i].addr : i \in 1..Len(Listing)}

InstAt(a) == Listing[CHOOSE i \in 1..Len(Listing) : Listing[i].addr = a]

\* function_public_index -> type, local variable list, address of the first instruction
FunctionTable ==
    <<
        [type_index |-> 3, local_list_index |-> 1, start |-> 0],
        [type_index |-> 4, local_list_index |-> 1, start |-> 56],
        [type_index |-> 4, local_list_index |-> 1, start |-> 176],
        [type_index |-> 4, local_list_index |-> 1, start |-> 296],
        [type_index |-> 4, local_list_index |-> 1, start |-> 416],
        [type_index |-> 5, local_list_index |-> 1, start |-> 536],
        [type_index |-> 5, local_list_index |-> 1, start |-> 644],
        [type_index |-> 7, local_list_index |-> 1, start |-> 704],
        [type_index |-> 6, local_list_index |-> 2, start |-> 748],
        [type_index |-> 6, local_list_index |-> 1, start |-> 864],
        [type_index |-> 4, local_list_index |-> 1, start |-> 908],
        [type_index |-> 7, local_list_index |-> 1, start |-> 932],
        [type_index |-> 1, local_list_index |-> 1, start |-> 1080],
        [type_index |-> 1, local_list_index |-> 1, start |-> 1104],
        [type_index |-> 1, local_list_index |-> 1, start |-> 1128],
        [type_index |-> 1, local_list_index |-> 1, start |-> 1152],
        [type_index |-> 1, local_list_index |-> 1, start |-> 1184],
        [type_index |-> 1, local_list_index |-> 1, start |-> 1208],
        [type_index |-> 1, local_list_index |-> 1, start |-> 1228],
        [type_index |-> 1, local_list_index |-> 1, start |-> 1252],
        [type_index |-> 1, local_list_index |-> 1, start |-> 1276],
        [type_index |-> 1, local_list_index |-> 1, start |-> 1300]
    >>

FunctionStart(f) == FunctionTable[f].start

\* The structures of the image: the address of the opening instruction, of its
\* break_alt (-1: none) and of its matching `end`.
Structures ==
    {
        [open |-> 0, alt |-> 0 - 1, end |-> 50],
        [open |-> 64, alt |-> 0 - 1, end |-> 172],
        [open |-> 84, alt |-> 0 - 1, end |-> 160],
        [open |-> 104, alt |-> 0 - 1, end |-> 150],
        [open |-> 184, alt |-> 0 - 1, end |-> 292],
        [open |-> 204, alt |-> 0 - 1, end |-> 280],
        [open |-> 224, alt |-> 0 - 1, end |-> 270],
        [open |-> 304, alt |-> 0 - 1, end |-> 412],
        [open |-> 324, alt |-> 0 - 1, end |-> 400],
        [open |-> 344, alt |-> 0 - 1, end |-> 390],
        [open |-> 424, alt |-> 0 - 1, end |-> 532],
        [open |-> 444, alt |-> 0 - 1, end |-> 520],
        [open |-> 464, alt |-> 0 - 1, end |-> 510],
        [open |-> 544, alt |-> 0 - 1, end |-> 636],
        [open |-> 568, alt |-> 0 - 1, end |-> 598],
        [open |-> 652, alt |-> 680, end |-> 698],
        [open |-> 712, alt |-> 0 - 1, end |-> 742],
        [open |-> 788, alt |-> 812, end |-> 856],
        [open |-> 864, alt |-> 0 - 1, end |-> 902],
        [open |-> 908, alt |-> 0 - 1, end |-> 928],
        [open |-> 932, alt |-> 0 - 1, end |-> 1076],
        [open |-> 960, alt |-> 0 - 1, end |-> 1074],
        [open |-> 988, alt |-> 0 - 1, end |-> 1072],
        [open |-> 1080, alt |-> 0 - 1, end |-> 1100],
        [open |-> 1104, alt |-> 0 - 1, end |-> 1124],
        [open |-> 1128, alt |-> 0 - 1, end |-> 1148],
        [open |-> 1152, alt |-> 0 - 1, end |-> 1180],
        [open |-> 1184, alt |-> 0 - 1, end |-> 1204],
        [open |-> 1228, alt |-> 0 - 1, end |-> 1248],
        [open |-> 1252, alt |-> 0 - 1, end |-> 1272],
        [open |-> 1276, alt |-> 0 - 1, end |-> 1296],
        [open |-> 1300, alt |-> 0 - 1, end |-> 1320]
    }

OpenerOps == {"block", "block_alt", "block_nez"}

\* ------------------------------------------------------ machine states

\* A machine state is a record [pc, frames, operands]; each instruction is an
\* operator from the state it runs in to the state it leaves.

Machine(p, f, o) == [pc |-> p, frames |-> f, operands |-> o]

Cur == Machine(pc, frames, operands)

Depth(S) == Len(S.frames)

\* The frame `layers` levels outward from the current one (0: the current frame).
FrameAt(S, layers) == S.frames[Depth(S) - layers]

\* Number of block frames above the innermost function frame.
BlockNesting(S) ==
    LET fs == {i \in 1..Depth(S) : S.frames[i].kind = "function"}
    IN  Depth(S) - (CHOOSE i \in fs : \A j \in fs : j <= i)

\* A new frame: the arguments are its first local variables, the declared local
\* variables follow and start at zero; `base` is the height of the operand stack
\* below the frame.
NewFrame(kind, type_index, local_list_index, ops, ret, fn) ==
    LET t == Types[type_index]
    IN  [kind |-> kind,
         params |-> t.params,
         results |-> t.results,
         locals |-> Top(ops, t.params) \o Zeros(LocalLists[local_list_index]),
         base |-> Len(ops) - t.params,
         ret |-> ret,
         fn |-> fn]

\* Operands that are left when a frame of the given type has taken its arguments.
BelowArgs(ops, type_index) == SubSeq(ops, 1, Len(ops) - Types[type_index].params)

\* ---------------------------------------------------------- instructions

Nop(S) == [S EXCEPT !.pc = S.pc + Length("nop")]

ImmI32(S, value) ==
    [S EXCEPT !.pc = S.pc + Length("imm_i32"),
              !.operands = Append(S.operands, value)]

\* A load that looks no further than the parent of the current frame.
LocalLoadNearestParent(S, layers, index) ==
    [S EXCEPT !.pc = S.pc + Length("local_load_i32_s"),
              !.operands = Append(S.operands,
                  FrameAt(S, IF layers = 0 THEN 0 ELSE 1).locals[index + 1])]

LocalLoad(S, layers, index) ==
    [S EXCEPT !.pc = S.pc + Length("local_load_i32_s"),
              !.operands = Append(S.operands, FrameAt(S, layers).locals[index + 1])]

LocalStore(S, layers, index) ==
    [S EXCEPT !.pc = S.pc + Length("local_store_i32"),
              !.operands = SubSeq(S.operands, 1, Len(S.operands) - 1),
              !.frames[Depth(S) - layers].locals[index + 1] =
                  S.operands[Len(S.operands)]]

AddI32(S) ==
    LET n == Len(S.operands)
    IN  [S EXCEPT !.pc = S.pc + Length("add_i32"),
                  !.operands = Append(SubSeq(S.operands, 1, n - 2),
                                      WrapAdd32(S.operands[n - 1], S.operands[n]))]

SubImmI32(S, imm) ==
    LET n == Len(S.operands)
    IN  [S EXCEPT !.pc = S.pc + Length("sub_imm_i32"),
                  !.operands = Append(SubSeq(S.operands, 1, n - 1),
                                      WrapAdd32(S.operands[n], 0 - imm))]

EqzI32(S) ==
    LET n == Len(S.operands)
    IN  [S EXCEPT !.pc = S.pc + Length("eqz_i32"),
                  !.operands = Append(SubSeq(S.operands, 1, n - 1),
                                      IF S.operands[n] = 0 THEN 1 ELSE 0)]

\* An end that leaves every operand of the removed frame on the stack.
EndKeepsAll(S) ==
    LET cur == FrameAt(S, 0)
    IN  Machine(IF cur.kind = "function" THEN cur.ret ELSE S.pc + Length("end"),
                SubSeq(S.frames, 1, Depth(S) - 1),
                S.operands)

\* end: the current frame is removed and its results are placed on top of the
\* operand stack; a block continues after the `end`, a function after its call.
End(S) ==
    LET cur == FrameAt(S, 0)
    IN  Machine(IF cur.kind = "function" THEN cur.ret ELSE S.pc + Length("end"),
                SubSeq(S.frames, 1, Depth(S) - 1),
                SubSeq(S.operands, 1, cur.base) \o Top(S.operands, cur.results))

\* block: a new block frame; its parameters become local variables.
Block(S, type_index, local_list_index) ==
    Machine(S.pc + Length("block"),
            Append(S.frames,
                   NewFrame("block", type_index, local_list_index, S.operands, 0, 0)),
            BelowArgs(S.operands, type_index))

\* A break that carries as many operands as the current frame's type has results.
BreakCurrentArity(S, layers, next_inst_offset) ==
    LET target == FrameAt(S, layers)
    IN  Machine(IF target.kind = "function" THEN target.ret
                ELSE S.pc + next_inst_offset,
                SubSeq(S.frames, 1, Depth(S) - layers - 1),
                SubSeq(S.operands, 1, target.base)
                    \o Top(S.operands, FrameAt(S, 0).results))

\* A break that jumps by next_inst_offset whatever its target is.
BreakJumpsAlways(S, layers, next_inst_offset) ==
    LET target == FrameAt(S, layers)
    IN  Machine(S.pc + next_inst_offset,
                SubSeq(S.frames, 1, Depth(S) - layers - 1),
                SubSeq(S.operands, 1, target.base) \o Top(S.operands, target.results))

\* break: the frames up to and including the target are removed, and as many
\* operands as the target's type has results are carried out.
Break(S, layers, next_inst_offset) ==
    LET target == FrameAt(S, layers)
    IN  Machine(IF target.kind = "function" THEN target.ret
                ELSE S.pc + next_inst_offset,
                SubSeq(S.frames, 1, Depth(S) - layers - 1),
                SubSeq(S.operands, 1, target.base) \o Top(S.operands, target.results))

\* Local variables that keep their values across a recur.
RecurLocalsKept(target, args) ==
    args \o SubSeq(target.locals, target.params + 1, Len(target.locals))

\* The local variables of a function frame that `recur` re-enters: the new
\* arguments, and every other local variable reset to 0.
RecurFunctionLocals(target, args) ==
    args \o Zeros(Len(target.locals) - target.params)

\* The local variables of a block frame that `recur` re-enters.
RecurBlockLocals(target, args) ==
    args \o Zeros(Len(target.locals) - target.params)

\* A recur that enters its target through a new frame, as a call would.
RecurAllocates(S, layers, start_inst_offset) ==
    LET target == FrameAt(S, layers)
        args == Top(S.operands, target.params)
    IN  Machine(IF target.kind = "function" THEN FunctionStart(target.fn)
                ELSE S.pc - start_inst_offset,
                Append(SubSeq(S.frames, 1, Depth(S) - layers),
                       [target EXCEPT !.locals = RecurFunctionLocals(target, args),
                                      !.base = Len(S.operands) - target.params]),
                SubSeq(S.operands, 1, Len(S.operands) - target.params))

\* A recur that removes its target frame too, as a break does.
RecurPopsTarget(S, layers, start_inst_offset) ==
    LET target == FrameAt(S, layers)
    IN  Machine(IF target.kind = "function" THEN FunctionStart(target.fn)
                ELSE S.pc - start_inst_offset,
                SubSeq(S.frames, 1, Depth(S) - layers - 1),
                SubSeq(S.operands, 1, target.base))

\* recur: the frames inside the target are removed, the target frame stays and
\* takes as many operands as its type has parameters as its new arguments;
\* every other operand of the removed frames and of the target is dropped.
Recur(S, layers, start_inst_offset) ==
    LET target == FrameAt(S, layers)
        args == Top(S.operands, target.params)
        locals == IF target.kind = "function"
                  THEN RecurFunctionLocals(target, args)
                  ELSE RecurBlockLocals(target, args)
    IN  Machine(IF target.kind = "function" THEN FunctionStart(target.fn)
                ELSE S.pc - start_inst_offset,
                Append(SubSeq(S.frames, 1, Depth(S) - layers - 1),
                       [target EXCEPT !.locals = locals]),
                SubSeq(S.operands, 1, target.base))

\* A block_alt that creates no frame when the operand on top of the stack is zero.
BlockAltSkipsFrame(S, type_index, local_list_index, next_inst_offset) ==
    LET n == Len(S.operands)
        cond == S.operands[n]
        rest == SubSeq(S.operands, 1, n - 1)
    IN  IF cond = 0
        THEN Machine(S.pc + next_inst_offset, S.frames, rest)
        ELSE Machine(S.pc + Length("block_alt"),
                     Append(S.frames,
                            NewFrame("block", type_index, local_list_index, rest, 0, 0)),
                     BelowArgs(rest, type_index))

\* block_alt: creates a block frame, and jumps to the instruction after the
\* break_alt when the operand on top of the stack is zero.
BlockAlt(S, type_index, local_list_index, next_inst_offset) ==
    LET n == Len(S.operands)
        cond == S.operands[n]
        rest == SubSeq(S.operands, 1, n - 1)
    IN  Machine(IF cond = 0 THEN S.pc + next_inst_offset
                ELSE S.pc + Length("block_alt"),
                Append(S.frames,
                       NewFrame("block", type_index, local_list_index, rest, 0, 0)),
                BelowArgs(rest, type_index))

\* A break_alt that carries no operand out.
BreakAltDropsResults(S, next_inst_offset) ==
    LET cur == FrameAt(S, 0)
    IN  Machine(S.pc + next_inst_offset,
                SubSeq(S.frames, 1, Depth(S) - 1),
                SubSeq(S.operands, 1, cur.base))

\* break_alt: leaves the current block_alt scope, carrying its results out, and
\* continues after the `end`.
BreakAlt(S, next_inst_offset) ==
    LET cur == FrameAt(S, 0)
    IN  Machine(S.pc + next_inst_offset,
                SubSeq(S.frames, 1, Depth(S) - 1),
                SubSeq(S.operands, 1, cur.base) \o Top(S.operands, cur.results))

\* A block_nez that creates its frame whatever the condition is.
BlockNezAlwaysFrame(S, local_list_index, next_inst_offset) ==
    LET n == Len(S.operands)
        cond == S.operands[n]
        rest == SubSeq(S.operands, 1, n - 1)
    IN  Machine(IF cond = 0 THEN S.pc + next_inst_offset
                ELSE S.pc + Length("block_nez"),
                Append(S.frames,
                       NewFrame("block", TypeVoid, local_list_index, rest, 0, 0)),
                rest)

\* block_nez: creates a block frame of type ()->() only when the operand on top
\* of the stack is not zero; otherwise jumps to the instruction after the `end`.
BlockNez(S, local_list_index, next_inst_offset) ==
    LET n == Len(S.operands)
        cond == S.operands[n]
        rest == SubSeq(S.operands, 1, n - 1)
    IN  IF cond = 0
        THEN Machine(S.pc + next_inst_offset, S.frames, rest)
        ELSE Machine(S.pc + Length("block_nez"),
                     Append(S.frames,
                            NewFrame("block", TypeVoid, local_list_index, rest, 0, 0)),
                     rest)

\* call: a new function frame that takes its arguments from the operand stack
\* and returns to the instruction after the call.
Call(S, f) ==
    LET ft == FunctionTable[f]
    IN  Machine(FunctionStart(f),
                Append(S.frames,
                       NewFrame("function", ft.type_index, ft.local_list_index,
                                S.operands, S.pc + Length("call"), f)),
                BelowArgs(S.operands, ft.type_index))

\* ------------------------------------------------------------------ faults

ControlOps == {"break_", "recur", "break_alt", "end"}

LocalOps == {"local_load_i32_s", "local_store_i32"}

\* A guard that only keeps the frame stack from underflowing.
ControlFlowFaultStackOnly(S) ==
    LET i == InstAt(S.pc)
    IN  IF Depth(S) = 0 THEN i.op \in ControlOps
        ELSE i.op \in {"break_", "recur"} /\ i.p0 >= Depth(S)

\* Whether the instruction at S.pc is a break, recur, break_alt or end whose
\* target frame does not exist in the current function: it is more than the
\* block nesting away, or there is no frame at all.
ControlFlowFault(S) ==
    LET i == InstAt(S.pc)
    IN  IF Depth(S) = 0 THEN i.op \in ControlOps
        ELSE i.op \in {"break_", "recur"} /\ i.p0 > BlockNesting(S)

\* The error of the local_load / local_store at S.pc, "none" when it has none:
\* the frame `layers` hops outward must exist in the current function, and
\* `index` must be one of its slots.
LocalFault(S) ==
    LET i == InstAt(S.pc)
    IN  IF i.op \notin LocalOps THEN "none"
        ELSE IF Depth(S) = 0 \/ i.p0 > BlockNesting(S) THEN "FrameDepthExceeded"
        ELSE IF i.p1 >= Len(FrameAt(S, i.p0).locals) THEN "LocalIndexOutOfRange"
        ELSE "none"

\* ------------------------------------------------------------- the run

\* Addresses of the instructions that open a structure.
Openers == {st.open : st \in Structures}

NoInstruction == [op |-> "none", addr |-> HaltAddress, layers |-> 0, offset |-> 0,
                  before |-> Machine(HaltAddress, <<>>, <<>>)]

\* The functions a run can start in; the function that breaks out of its own
\* frame is reached through its caller.
EntryFunctions == (1..Len(FunctionTable)) \ {FnNested + 3}

\* The state after construction: the entry function has been called with
\* arguments drawn from 0..MaxArg.
Init ==
    \E entry \in EntryFunctions :
        LET ft == FunctionTable[entry]
        IN  \E args \in [1..Types[ft.type_index].params -> 0..MaxArg] :
                /\ pc = FunctionStart(entry)
                /\ frames = <<NewFrame("function", ft.type_index, ft.local_list_index,
                                       args, HaltAddress, entry)>>
                /\ operands = <<>>
                /\ last = NoInstruction
                /\ opened = [a \in Openers |-> 0]
                /\ alt = [addr |-> HaltAddress, cond |-> 0, seen |-> {}]
                /\ entered = 1
                /\ outcome = "running"
                /\ req = NoRequest

\* The instruction at pc is `op` and can be executed.
Running(op) ==
    /\ outcome = "running"
    /\ pc # HaltAddress
    /\ InstAt(pc).op = op
    /\ ~ControlFlowFault(Cur)
    /\ LocalFault(Cur) = "none"

\* The machine moves to R; the history variables record the instruction.
Commit(R, layers, offset) ==
    /\ pc' = R.pc
    /\ frames' = R.frames
    /\ operands' = R.operands
    /\ last' = [op |-> InstAt(pc).op, addr |-> pc, layers |-> layers,
                offset |-> offset, before |-> Cur]
    /\ opened' = IF pc \in Openers THEN [opened EXCEPT ![pc] = Len(frames)]
                 ELSE opened
    /\ alt' = IF InstAt(pc).op = "block_alt"
              THEN [addr |-> pc, cond |-> operands[Len(operands)], seen |-> {}]
              ELSE [alt EXCEPT !.seen = @ \cup {pc}]
    /\ entered' = IF InstAt(pc).op = "call" THEN Len(R.frames) ELSE entered
    /\ outcome' = outcome
    /\ req' = req

ExecNop == Running("nop") /\ Commit(Nop(Cur), 0, 0)

ExecImmI32 == Running("imm_i32") /\ Commit(ImmI32(Cur, InstAt(pc).p0), 0, 0)

ExecLocalLoad ==
    /\ Running("local_load_i32_s")
    /\ Commit(LocalLoad(Cur, InstAt(pc).p0, InstAt(pc).p1), InstAt(pc).p0, 0)

ExecLocalStore ==
    /\ Running("local_store_i32")
    /\ Commit(LocalStore(Cur, InstAt(pc).p0, InstAt(pc).p1), InstAt(pc).p0, 0)

ExecAddI32 == Running("add_i32") /\ Commit(AddI32(Cur), 0, 0)

ExecSubImmI32 == Running("sub_imm_i32") /\ Commit(SubImmI32(Cur, InstAt(pc).p0), 0, 0)

ExecEqzI32 == Running("eqz_i32") /\ Commit(EqzI32(Cur), 0, 0)

ExecEnd == Running("end") /\ Commit(End(Cur), 0, 0)

ExecBlock ==
    /\ Running("block")
    /\ Commit(Block(Cur, InstAt(pc).p0, InstAt(pc).p1), 0, 0)

ExecBreak ==
    /\ Running("break_")
    /\ Commit(Break(Cur, InstAt(pc).p0, InstAt(pc).p1), InstAt(pc).p0, InstAt(pc).p1)

ExecRecur ==
    /\ Running("recur")
    /\ Commit(Recur(Cur, InstAt(pc).p0, InstAt(pc).p1), InstAt(pc).p0, InstAt(pc).p1)

ExecBlockAlt ==
    /\ Running("block_alt")
    /\ Commit(BlockAlt(Cur, InstAt(pc).p0, InstAt(pc).p1, InstAt(pc).p2), 0, InstAt(pc).p2)

ExecBreakAlt ==
    /\ Running("break_alt")
    /\ Commit(BreakAlt(Cur, InstAt(pc).p0), 0, InstAt(pc).p0)

ExecBlockNez ==
    /\ Running("block_nez")
    /\ Commit(BlockNez(Cur, InstAt(pc).p0, InstAt(pc).p1), 0, InstAt(pc).p1)

ExecCall == Running("call") /\ Commit(Call(Cur, InstAt(pc).p0), 0, 0)

\* The run ends in an error; the machine is left as it was.
RaiseControlFlowViolation ==
    /\ outcome = "running"
    /\ pc # HaltAddress
    /\ ControlFlowFault(Cur)
    /\ outcome' = "ControlFlowViolation"
    /\ UNCHANGED <<pc, frames, operands, last, opened, alt, entered, req>>

RaiseLocalFault ==
    /\ outcome = "running"
    /\ pc # HaltAddress
    /\ LocalFault(Cur) # "none"
    /\ outcome' = LocalFault(Cur)
    /\ UNCHANGED <<pc, frames, operands, last, opened, alt, entered, req>>

Next ==
    \/ ExecNop
    \/ ExecImmI32
    \/ ExecLocalLoad
    \/ ExecLocalStore
    \/ ExecAddI32
    \/ ExecSubImmI32
    \/ ExecEqzI32
    \/ ExecEnd
    \/ ExecBlock
    \/ ExecBreak
    \/ ExecRecur
    \/ ExecBlockAlt
    \/ ExecBreakAlt
    \/ ExecBlockNez
    \/ ExecCall
    \/ RaiseControlFlowViolation
    \/ RaiseLocalFault

Spec == Init /\ [][Next]_vars

\* ------------------------------------------------------ sanity of the image

\* The listing is laid out by the instruction lengths, every instruction with
\* an i32 parameter starts on a 4-byte boundary, every structure is delimited
\* by an opening instruction and an `end`, and the machine is at an instruction.
ImageWellFormed ==
    /\ \A i \in 1..(Len(Listing) - 1) :
           Listing[i + 1].addr = Listing[i].addr + Length(Listing[i].op)
    /\ \A i \in 1..Len(Listing) :
           HasI32Param(Listing[i].op) => Listing[i].addr % 4 = 0
    /\ \A st \in Structures :
           /\ InstAt(st.open).op \in OpenerOps
           /\ InstAt(st.end).op = "end"
           /\ st.alt # 0 - 1 => InstAt(st.alt).op = "break_alt"
    /\ pc # HaltAddress => pc \in CodeAddresses

\* ------------------------------------------------------------ the opcodes

\* An enum variant without an explicit discriminant.
Implicit == 0 - 1

\* A variant of the Opcode enum: its name, its explicit discriminant (or
\* Implicit), the "Category:" section it is declared in, and the widths in
\* bits of its parameters, in the order its signature comment gives them.
Op(name, explicit, category, params) ==
    [name |-> name, explicit |-> explicit, category |-> category, params |-> params]

\* The variants of the enum, in declaration order.
Opcodes ==
    <<
        \* Category: Fundamental
        Op("nop", \h0100, "Fundamental", <<>>),
        Op("imm_i32", Implicit, "Fundamental", <<32>>),
        Op("imm_i64", Implicit, "Fundamental", <<32, 32>>),
        Op("imm_f32", Implicit, "Fundamental", <<32>>),
        Op("imm_f64", Implicit, "Fundamental", <<32, 32>>),
        \* Category: Local Variables
        Op("local_load_i64", \h0200, "Local Variables", <<16, 32>>),
        Op("local_load_i32_s", Implicit, "Local Variables", <<16, 32>>),
        Op("local_load_i32_u", Implicit, "Local Variables", <<16, 32>>),
        Op("local_load_i16_s", Implicit, "Local Variables", <<16, 32>>),
        Op("local_load_i16_u", Implicit, "Local Variables", <<16, 32>>),
        Op("local_load_i8_s", Implicit, "Local Variables", <<16, 32>>),
        Op("local_load_i8_u", Implicit, "Local Variables", <<16, 32>>),
        Op("local_load_f64", Implicit, "Local Variables", <<16, 32>>),
        Op("local_load_f32", Implicit, "Local Variables", <<16, 32>>),
        Op("local_store_i64", Implicit, "Local Variables", <<16, 32>>),
        Op("local_store_i32", Implicit, "Local Variables", <<16, 32>>),
        Op("local_store_i16", Implicit, "Local Variables", <<16, 32>>),
        Op("local_store_i8", Implicit, "Local Variables", <<16, 32>>),
        Op("local_store_f64", Implicit, "Local Variables", <<16, 32>>),
        Op("local_store_f32", Implicit, "Local Variables", <<16, 32>>),
        \* Category: Data
        Op("data_load_i64", \h0300, "Data", <<16, 32>>),
        Op("data_load_i32_s", Implicit, "Data", <<16, 32>>),
        Op("data_load_i32_u", Implicit, "Data", <<16, 32>>),
        Op("data_load_i16_s", Implicit, "Data", <<16, 32>>),
        Op("data_load_i16_u", Implicit, "Data", <<16, 32>>),
        Op("data_load_i8_s", Implicit, "Data", <<16, 32>>),
        Op("data_load_i8_u", Implicit, "Data", <<16, 32>>),
        Op("data_load_f64", Implicit, "Data", <<16, 32>>),
        Op("data_load_f32", Implicit, "Data", <<16, 32>>),
        Op("data_store_i64", Implicit, "Data", <<16, 32>>),
        Op("data_store_i32", Implicit, "Data", <<16, 32>>),
        Op("data_store_i16", Implicit, "Data", <<16, 32>>),
        Op("data_store_i8", Implicit, "Data", <<16, 32>>),
        Op("data_store_f64", Implicit, "Data", <<16, 32>>),
        Op("data_store_f32", Implicit, "Data", <<16, 32>>),
        Op("data_load_extend_i64", Implicit, "Data", <<32>>),
        Op("data_load_extend_i32_s", Implicit, "Data", <<32>>),
        Op("data_load_extend_i32_u", Implicit, "Data", <<32>>),
        Op("data_load_extend_i16_s", Implicit, "Data", <<32>>),
        Op("data_load_extend_i16_u", Implicit, "Data", <<32>>),
        Op("data_load_extend_i8_s", Implicit, "Data", <<32>>),
        Op("data_load_extend_i8_u", Implicit, "Data", <<32>>),
        Op("data_load_extend_f64", Implicit, "Data", <<32>>),
        Op("data_load_extend_f32", Implicit, "Data", <<32>>),
        Op("data_store_extend_i64", Implicit, "Data", <<32>>),
        Op("data_store_extend_i32", Implicit, "Data", <<32>>),
        Op("data_store_extend_i16", Implicit, "Data", <<32>>),
        Op("data_store_extend_i8", Implicit, "Data", <<32>>),
        Op("data_store_extend_f64", Implicit, "Data", <<32>>),
        Op("data_store_extend_f32", Implicit, "Data", <<32>>),
        Op("data_load_dynamic_i64", Implicit, "Data", <<>>),
        Op("data_load_dynamic_i32_s", Implicit, "Data", <<>>),
        Op("data_load_dynamic_i32_u", Implicit, "Data", <<>>),
        Op("data_load_dynamic_i16_s", Implicit, "Data", <<>>),
        Op("data_load_dynamic_i16_u", Implicit, "Data", <<>>),
        Op("data_load_dynamic_i8_s", Implicit, "Data", <<>>),
        Op("data_load_dynamic_i8_u", Implicit, "Data", <<>>),
        Op("data_load_dynamic_f64", Implicit, "Data", <<>>),
        Op("data_load_dynamic_f32", Implicit, "Data", <<>>),
        Op("data_store_dynamic_i64", Implicit, "Data", <<>>),
        Op("data_store_dynamic_i32", Implicit, "Data", <<>>),
        Op("data_store_dynamic_i16", Implicit, "Data", <<>>),
        Op("data_store_dynamic_i8", Implicit, "Data", <<>>),
        Op("data_store_dynamic_f64", Implicit, "Data", <<>>),
        Op("data_store_dynamic_f32", Implicit, "Data", <<>>),
        \* Category: Arithmetic
        Op("add_i32", \h0400, "Arithmetic", <<>>),
        Op("sub_i32", Implicit, "Arithmetic", <<>>),
        Op("add_imm_i32", Implicit, "Arithmetic", <<16>>),
        Op("sub_imm_i32", Implicit, "Arithmetic", <<16>>),
        Op("mul_i32", Implicit, "Arithmetic", <<>>),
        Op("div_i32_s", Implicit, "Arithmetic", <<>>),
        Op("div_i32_u", Implicit, "Arithmetic", <<>>),
        Op("rem_i32_s", Implicit, "Arithmetic", <<>>),
        Op("rem_i32_u", Implicit, "Arithmetic", <<>>),
        Op("add_i64", Implicit, "Arithmetic", <<>>),
        Op("sub_i64", Implicit, "Arithmetic", <<>>),
        Op("add_imm_i64", Implicit, "Arithmetic", <<16>>),
        Op("sub_imm_i64", Implicit, "Arithmetic", <<16>>),
        Op("mul_i64", Implicit, "Arithmetic", <<>>),
        Op("div_i64_s", Implicit, "Arithmetic", <<>>),
        Op("div_i64_u", Implicit, "Arithmetic", <<>>),
        Op("rem_i64_s", Implicit, "Arithmetic", <<>>),
        Op("rem_i64_u", Implicit, "Arithmetic", <<>>),
        Op("add_f32", Implicit, "Arithmetic", <<>>),
        Op("sub_f32", Implicit, "Arithmetic", <<>>),
        Op("mul_f32", Implicit, "Arithmetic", <<>>),
        Op("div_f32", Implicit, "Arithmetic", <<>>),
        Op("add_f64", Implicit, "Arithmetic", <<>>),
        Op("sub_f64", Implicit, "Arithmetic", <<>>),
        Op("mul_f64", Implicit, "Arithmetic", <<>>),
        Op("div_f64", Implicit, "Arithmetic", <<>>),
        \* Category: Bitwise
        Op("and", \h0500, "Bitwise", <<>>),
        Op("or", Implicit, "Bitwise", <<>>),
        Op("xor", Implicit, "Bitwise", <<>>),
        Op("not", Implicit, "Bitwise", <<>>),
        Op("shift_left_i32", Implicit, "Bitwise", <<>>),
        Op("shift_right_i32_s", Implicit, "Bitwise", <<>>),
        Op("shift_right_i32_u", Implicit, "Bitwise", <<>>),
        Op("rotate_left_i32", Implicit, "Bitwise", <<>>),
        Op("rotate_right_i32", Implicit, "Bitwise", <<>>),
        Op("count_leading_zeros_i32", Implicit, "Bitwise", <<>>),
        Op("count_leading_ones_i32", Implicit, "Bitwise", <<>>),
        Op("count_trailing_zeros_i32", Implicit, "Bitwise", <<>>),
        Op("count_ones_i32", Implicit, "Bitwise", <<>>),
        Op("shift_left_i64", Implicit, "Bitwise", <<>>),
        Op("shift_right_i64_s", Implicit, "Bitwise", <<>>),
        Op("shift_right_i64_u", Implicit, "Bitwise", <<>>),
        Op("rotate_left_i64", Implicit, "Bitwise", <<>>),
        Op("rotate_right_i64", Implicit, "Bitwise", <<>>),
        Op("count_leading_zeros_i64", Implicit, "Bitwise", <<>>),
        Op("count_leading_ones_i64", Implicit, "Bitwise", <<>>),
        Op("count_trailing_zeros_i64", Implicit, "Bitwise", <<>>),
        Op("count_ones_i64", Implicit, "Bitwise", <<>>),
        \* Category: Math
        Op("abs_i32", \h0600, "Math", <<>>),
        Op("neg_i32", Implicit, "Math", <<>>),
        Op("abs_i64", Implicit, "Math", <<>>),
        Op("neg_i64", Implicit, "Math", <<>>),
        Op("abs_f32", Implicit, "Math", <<>>),
        Op("neg_f32", Implicit, "Math", <<>>),
        Op("copysign_f32", Implicit, "Math", <<>>),
        Op("sqrt_f32", Implicit, "Math", <<>>),
        Op("min_f32", Implicit, "Math", <<>>),
        Op("max_f32", Implicit, "Math", <<>>),
        Op("ceil_f32", Implicit, "Math", <<>>),
        Op("floor_f32", Implicit, "Math", <<>>),
        Op("round_half_away_from_zero_f32", Implicit, "Math", <<>>),
        Op("round_half_to_even_f32", Implicit, "Math", <<>>),
        Op("trunc_f32", Implicit, "Math", <<>>),
        Op("fract_f32", Implicit, "Math", <<>>),
        Op("cbrt_f32", Implicit, "Math", <<>>),
        Op("exp_f32", Implicit, "Math", <<>>),
        Op("exp2_f32", Implicit, "Math", <<>>),
        Op("ln_f32", Implicit, "Math", <<>>),
        Op("log2_f32", Implicit, "Math", <<>>),
        Op("log10_f32", Implicit, "Math", <<>>),
        Op("sin_f32", Implicit, "Math", <<>>),
        Op("cos_f32", Implicit, "Math", <<>>),
        Op("tan_f32", Implicit, "Math", <<>>),
        Op("asin_f32", Implicit, "Math", <<>>),
        Op("acos_f32", Implicit, "Math", <<>>),
        Op("atan_f32", Implicit, "Math", <<>>),
        Op("pow_f32", Implicit, "Math", <<>>),
        Op("log_f32", Implicit, "Math", <<>>),
        Op("abs_f64", Implicit, "Math", <<>>),
        Op("neg_f64", Implicit, "Math", <<>>),
        Op("copysign_f64", Implicit, "Math", <<>>),
        Op("sqrt_f64", Implicit, "Math", <<>>),
        Op("min_f64", Implicit, "Math", <<>>),
        Op("max_f64", Implicit, "Math", <<>>),
        Op("ceil_f64", Implicit, "Math", <<>>),
        Op("floor_f64", Implicit, "Math", <<>>),
        Op("round_half_away_from_zero_f64", Implicit, "Math", <<>>),
        Op("round_half_to_even_f64", Implicit, "Math", <<>>),
        Op("trunc_f64", Implicit, "Math", <<>>),
        Op("fract_f64", Implicit, "Math", <<>>),
        Op("cbrt_f64", Implicit, "Math", <<>>),
        Op("exp_f64", Implicit, "Math", <<>>),
        Op("exp2_f64", Implicit, "Math", <<>>),
        Op("ln_f64", Implicit, "Math", <<>>),
        Op("log2_f64", Implicit, "Math", <<>>),
        Op("log10_f64", Implicit, "Math", <<>>),
        Op("sin_f64", Implicit, "Math", <<>>),
        Op("cos_f64", Implicit, "Math", <<>>),
        Op("tan_f64", Implicit, "Math", <<>>),
        Op("asin_f64", Implicit, "Math", <<>>),
        Op("acos_f64", Implicit, "Math", <<>>),
        Op("atan_f64", Implicit, "Math", <<>>),
        Op("pow_f64", Implicit, "Math", <<>>),
        Op("log_f64", Implicit, "Math", <<>>),
        \* Category: Conversion
        Op("truncate_i64_to_i32", \h0700, "Conversion", <<>>),
        Op("extend_i32_s_to_i64", Implicit, "Conversion", <<>>),
        Op("extend_i32_u_to_i64", Implicit, "Conversion", <<>>),
        Op("demote_f64_to_f32", Implicit, "Conversion", <<>>),
        Op("promote_f32_to_f64", Implicit, "Conversion", <<>>),
        Op("convert_f32_to_i32_s", Implicit, "Conversion", <<>>),
        Op("convert_f32_to_i32_u", Implicit, "Conversion", <<>>),
        Op("convert_f64_to_i32_s", Implicit, "Conversion", <<>>),
        Op("convert_f64_to_i32_u", Implicit, "Conversion", <<>>),
        Op("convert_f32_to_i64_s", Implicit, "Conversion", <<>>),
        Op("convert_f32_to_i64_u", Implicit, "Conversion", <<>>),
        Op("convert_f64_to_i64_s", Implicit, "Conversion", <<>>),
        Op("convert_f64_to_i64_u", Implicit, "Conversion", <<>>),
        Op("convert_i32_s_to_f32", Implicit, "Conversion", <<>>),
        Op("convert_i32_u_to_f32", Implicit, "Conversion", <<>>),
        Op("convert_i64_s_to_f32", Implicit, "Conversion", <<>>),
        Op("convert_i64_u_to_f32", Implicit, "Conversion", <<>>),
        Op("convert_i32_s_to_f64", Implicit, "Conversion", <<>>),
        Op("convert_i32_u_to_f64", Implicit, "Conversion", <<>>),
        Op("convert_i64_s_to_f64", Implicit, "Conversion", <<>>),
        Op("convert_i64_u_to_f64", Implicit, "Conversion", <<>>),
        \* Category: Comparison
        Op("eqz_i32", \h0800, "Comparison", <<>>),
        Op("nez_i32", Implicit, "Comparison", <<>>),
        Op("eq_i32", Implicit, "Comparison", <<>>),
        Op("ne_i32", Implicit, "Comparison", <<>>),
        Op("lt_i32_s", Implicit, "Comparison", <<>>),
        Op("lt_i32_u", Implicit, "Comparison", <<>>),
        Op("gt_i32_s", Implicit, "Comparison", <<>>),
        Op("gt_i32_u", Implicit, "Comparison", <<>>),
        Op("le_i32_s", Implicit, "Comparison", <<>>),
        Op("le_i32_u", Implicit, "Comparison", <<>>),
        Op("ge_i32_s", Implicit, "Comparison", <<>>),
        Op("ge_i32_u", Implicit, "Comparison", <<>>),
        Op("eqz_i64", Implicit, "Comparison", <<>>),
        Op("nez_i64", Implicit, "Comparison", <<>>),
        Op("eq_i64", Implicit, "Comparison", <<>>),
        Op("ne_i64", Implicit, "Comparison", <<>>),
        Op("lt_i64_s", Implicit, "Comparison", <<>>),
        Op("lt_i64_u", Implicit, "Comparison", <<>>),
        Op("gt_i64_s", Implicit, "Comparison", <<>>),
        Op("gt_i64_u", Implicit, "Comparison", <<>>),
        Op("le_i64_s", Implicit, "Comparison", <<>>),
        Op("le_i64_u", Implicit, "Comparison", <<>>),
        Op("ge_i64_s", Implicit, "Comparison", <<>>),
        Op("ge_i64_u", Implicit, "Comparison", <<>>),
        Op("eq_f32", Implicit, "Comparison", <<>>),
        Op("ne_f32", Implicit, "Comparison", <<>>),
        Op("lt_f32", Implicit, "Comparison", <<>>),
        Op("gt_f32", Implicit, "Comparison", <<>>),
        Op("le_f32", Implicit, "Comparison", <<>>),
        Op("ge_f32", Implicit, "Comparison", <<>>),
        Op("eq_f64", Implicit, "Comparison", <<>>),
        Op("ne_f64", Implicit, "Comparison", <<>>),
        Op("lt_f64", Implicit, "Comparison", <<>>),
        Op("gt_f64", Implicit, "Comparison", <<>>),
        Op("le_f64", Implicit, "Comparison", <<>>),
        Op("ge_f64", Implicit, "Comparison", <<>>),
        \* Category: Control flow
        Op("end", \h0900, "Control flow", <<>>),
        Op("block", Implicit, "Control flow", <<32, 32>>),
        Op("break_", Implicit, "Control flow", <<16, 32>>),
        Op("recur", Implicit, "Control flow", <<16, 32>>),
        Op("block_alt", Implicit, "Control flow", <<32, 32, 32>>),
        Op("break_alt", Implicit, "Control flow", <<32>>),
        Op("block_nez", Implicit, "Control flow", <<32, 32>>),
        Op("call", Implicit, "Control flow", <<32>>),
        Op("call_dynamic", Implicit, "Control flow", <<>>),
        Op("envcall", Implicit, "Control flow", <<32>>),
        Op("syscall", Implicit, "Control flow", <<>>),
        Op("extcall", Implicit, "Control flow", <<32>>),
        \* Category: Memory
        Op("memory_allocate", \h0a00, "Memory", <<>>),
        Op("memory_resize", Implicit, "Memory", <<>>),
        Op("memory_free", Implicit, "Memory", <<>>),
        Op("memory_fill", Implicit, "Memory", <<>>),
        Op("memory_copy", Implicit, "Memory", <<>>),
        \* Category: Machine
        Op("terminate", Implicit, "Machine", <<32>>),
        Op("get_function", \h0b00, "Machine", <<32>>),
        Op("get_data", Implicit, "Machine", <<32>>),
        Op("host_addr_function", Implicit, "Machine", <<32>>),
        Op("host_addr_function_dynamic", Implicit, "Machine", <<>>),
        Op("host_addr_data", Implicit, "Machine", <<16, 32>>),
        Op("host_addr_data_extend", Implicit, "Machine", <<32>>),
        Op("host_addr_data_dynamic", Implicit, "Machine", <<>>)
    >>

OpcodeIndexes == 1..Len(Opcodes)

\* The discriminant of the i-th variant: the explicit one, or one more than
\* the discriminant of the variant before it.
RECURSIVE Discriminant(_)
Discriminant(i) ==
    IF Opcodes[i].explicit # Implicit THEN Opcodes[i].explicit
    ELSE Discriminant(i - 1) + 1

\* Opcode values, by position in the enum.
OpcodeValue == [i \in OpcodeIndexes |-> Discriminant(i)]

MAX_OPCODE_NUMBER == \h0c00

HighByte(value) == value \div 256

LowByte(value) == value % 256

OpcodeNamed(name) == CHOOSE i \in OpcodeIndexes : Opcodes[i].name = name

\* The "Category:" sections of the enum, of get_name and of from_name, in
\* order; the number of a category is its position.
Categories ==
    <<"Fundamental", "Local Variables", "Data", "Arithmetic", "Bitwise", "Math",
      "Conversion", "Comparison", "Control flow", "Memory", "Machine">>

CategoryNumber(category) == CHOOSE n \in 1..Len(Categories) : Categories[n] = category

\* Zero-based position of the i-th variant among the variants of its category.
PositionInCategory(i) ==
    Cardinality({j \in 1..(i - 1) : Opcodes[j].category = Opcodes[i].category})

\* The arms of the match of get_name, in order: <<variant, name>>.
GetNameArms ==
    <<
        <<"nop", "nop">>,
        <<"imm_i32", "imm_i32">>,
        <<"imm_i64", "imm_i64">>,
        <<"imm_f32", "imm_f32">>,
        <<"imm_f64", "imm_f64">>,
        <<"local_load_i64", "local_load_64">>,
        <<"local_load_i32_s", "local_load_i32_s">>,
        <<"local_load_i32_u", "local_load_i32_u">>,
        <<"local_load_i16_s", "local_load_i16_s">>,
        <<"local_load_i16_u", "local_load_i16_u">>,
        <<"local_load_i8_s", "local_load_i8_s">>,
        <<"local_load_i8_u", "local_load_i8_u">>,
        <<"local_load_f64", "local_load_f64">>,
        <<"local_load_f32", "local_load_f32">>,
        <<"local_store_i64", "local_store_i64">>,
        <<"local_store_i32", "local_store_i32">>,
        <<"local_store_i16", "local_store_i16">>,
        <<"local_store_i8", "local_store_i8">>,
        <<"local_store_f64", "local_store_f64">>,
        <<"local_store_f32", "local_store_f32">>,
        <<"data_load_i64", "data_load_i64">>,
        <<"data_load_i32_s", "data_load_i32_s">>,
        <<"data_load_i32_u", "data_load_i32_u">>,
        <<"data_load_i16_s", "data_load_i16_s">>,
        <<"data_load_i16_u", "data_load_i16_u">>,
        <<"data_load_i8_s", "data_load_i8_s">>,
        <<"data_load_i8_u", "data_load_i8_u">>,
        <<"data_load_f64", "data_load_f64">>,
        <<"data_load_f32", "data_load_f32">>,
        <<"data_store_i64", "data_store_i64">>,
        <<"data_store_i32", "data_store_i32">>,
        <<"data_store_i16", "data_store_i16">>,
        <<"data_store_i8", "data_store_i8">>,
        <<"data_store_f64", "data_store_f64">>,
        <<"data_store_f32", "data_store_f32">>,
        <<"data_load_extend_i64", "data_load_extend_i64">>,
        <<"data_load_extend_i32_s", "data_load_extend_i32_s">>,
        <<"data_load_extend_i32_u", "data_load_extend_i32_u">>,
        <<"data_load_extend_i16_s", "data_load_extend_i16_s">>,
        <<"data_load_extend_i16_u", "data_load_extend_i16_u">>,
        <<"data_load_extend_i8_s", "data_load_extend_i8_s">>,
        <<"data_load_extend_i8_u", "data_load_extend_i8_u">>,
        <<"data_load_extend_f64", "data_load_extend_f64">>,
        <<"data_load_extend_f32", "data_load_extend_f32">>,
        <<"data_store_extend_i64", "data_store_extend_i64">>,
        <<"data_store_extend_i32", "data_store_extend_i32">>,
        <<"data_store_extend_i16", "data_store_extend_i16">>,
        <<"data_store_extend_i8", "data_store_extend_i8">>,
        <<"data_store_extend_f64", "data_store_extend_f64">>,
        <<"data_store_extend_f32", "data_store_extend_f32">>,
        <<"data_load_dynamic_i64", "data_load_dynamic_i64">>,
        <<"data_load_dynamic_i32_s", "data_load_dynamic_i32_s">>,
        <<"data_load_dynamic_i32_u", "data_load_dynamic_i32_u">>,
        <<"data_load_dynamic_i16_s", "data_load_dynamic_i16_s">>,
        <<"data_load_dynamic_i16_u", "data_load_dynamic_i16_u">>,
        <<"data_load_dynamic_i8_s", "data_load_dynamic_i8_s">>,
        <<"data_load_dynamic_i8_u", "data_load_dynamic_i8_u">>,
        <<"data_load_dynamic_f64", "data_load_dynamic_f64">>,
        <<"data_load_dynamic_f32", "data_load_dynamic_f32">>,
        <<"data_store_dynamic_i64", "data_store_dynamic_i64">>,
        <<"data_store_dynamic_i32", "data_store_dynamic_i32">>,
        <<"data_store_dynamic_i16", "data_store_dynamic_i16">>,
        <<"data_store_dynamic_i8", "data_store_dynamic_i8">>,
        <<"data_store_dynamic_f64", "data_store_dynamic_f64">>,
        <<"data_store_dynamic_f32", "data_store_dynamic_f32">>,
        <<"add_i32", "add_i32">>,
        <<"sub_i32", "sub_i32">>,
        <<"add_imm_i32", "add_imm_i32">>,
        <<"sub_imm_i32", "sub_imm_i32">>,
        <<"mul_i32", "mul_i32">>,
        <<"div_i32_s", "div_i32_s">>,
        <<"div_i32_u", "div_i32_u">>,
        <<"rem_i32_s", "rem_i32_s">>,
        <<"rem_i32_u", "rem_i32_u">>,
        <<"add_i64", "add_i64">>,
        <<"sub_i64", "sub_i64">>,
        <<"add_imm_i64", "add_imm_i64">>,
        <<"sub_imm_i64", "sub_imm_i64">>,
        <<"mul_i64", "mul_i64">>,
        <<"div_i64_s", "div_i64_s">>,
        <<"div_i64_u", "div_i64_u">>,
        <<"rem_i64_s", "rem_i64_s">>,
        <<"rem_i64_u", "rem_i64_u">>,
        <<"add_f32", "add_f32">>,
        <<"sub_f32", "sub_f32">>,
        <<"mul_f32", "mul_f32">>,
        <<"div_f32", "div_f32">>,
        <<"add_f64", "add_f64">>,
        <<"sub_f64", "sub_f64">>,
        <<"mul_f64", "mul_f64">>,
        <<"div_f64", "div_f64">>,
        <<"and", "and">>,
        <<"or", "or">>,
        <<"xor", "xor">>,
        <<"not", "not">>,
        <<"count_leading_zeros_i32", "count_leading_zeros_i32">>,
        <<"count_leading_ones_i32", "count_leading_ones_i32">>,
        <<"count_trailing_zeros_i32", "count_trailing_zeros_i32">>,
        <<"count_ones_i32", "count_ones_i32">>,
        <<"shift_left_i32", "shift_left_i32">>,
        <<"shift_right_i32_s", "shift_right_i32_s">>,
        <<"shift_right_i32_u", "shift_right_i32_u">>,
        <<"rotate_left_i32", "rotate_left_i32">>,
        <<"rotate_right_i32", "rotate_right_i32">>,
        <<"count_leading_zeros_i64", "count_leading_zeros_i64">>,
        <<"count_leading_ones_i64", "count_leading_ones_i64">>,
        <<"count_trailing_zeros_i64", "count_trailing_zeros_i64">>,
        <<"count_ones_i64", "count_ones_i64">>,
        <<"shift_left_i64", "shift_left_i64">>,
        <<"shift_right_i64_s", "shift_right_i64_s">>,
        <<"shift_right_i64_u", "shift_right_i64_u">>,
        <<"rotate_left_i64", "rotate_left_i64">>,
        <<"rotate_right_i64", "rotate_right_i64">>,
        <<"abs_i32", "abs_i32">>,
        <<"neg_i32", "neg_i32">>,
        <<"abs_i64", "abs_i64">>,
        <<"neg_i64", "neg_i64">>,
        <<"abs_f32", "abs_f32">>,
        <<"neg_f32", "neg_f32">>,
        <<"copysign_f32", "copysign_f32">>,
        <<"sqrt_f32", "sqrt_f32">>,
        <<"min_f32", "min_f32">>,
        <<"max_f32", "max_f32">>,
        <<"ceil_f32", "ceil_f32">>,
        <<"floor_f32", "floor_f32">>,
        <<"round_half_away_from_zero_f32", "round_half_away_from_zero_f32">>,
        <<"round_half_to_even_f32", "round_half_to_even_f32">>,
        <<"trunc_f32", "trunc_f32">>,
        <<"fract_f32", "fract_f32">>,
        <<"cbrt_f32", "cbrt_f32">>,
        <<"exp_f32", "exp_f32">>,
        <<"exp2_f32", "exp2_f32">>,
        <<"ln_f32", "ln_f32">>,
        <<"log2_f32", "log2_f32">>,
        <<"log10_f32", "log10_f32">>,
        <<"sin_f32", "sin_f32">>,
        <<"cos_f32", "cos_f32">>,
        <<"tan_f32", "tan_f32">>,
        <<"asin_f32", "asin_f32">>,
        <<"acos_f32", "acos_f32">>,
        <<"atan_f32", "atan_f32">>,
        <<"pow_f32", "pow_f32">>,
        <<"log_f32", "log_f32">>,
        <<"abs_f64", "abs_f64">>,
        <<"neg_f64", "neg_f64">>,
        <<"copysign_f64", "copysign_f64">>,
        <<"sqrt_f64", "sqrt_f64">>,
        <<"min_f64", "min_f64">>,
        <<"max_f64", "max_f64">>,
        <<"ceil_f64", "ceil_f64">>,
        <<"floor_f64", "floor_f64">>,
        <<"round_half_away_from_zero_f64", "round_half_away_from_zero_f64">>,
        <<"round_half_to_even_f64", "round_half_to_even_f64">>,
        <<"trunc_f64", "trunc_f64">>,
        <<"fract_f64", "fract_f64">>,
        <<"cbrt_f64", "cbrt_f64">>,
        <<"exp_f64", "exp_f64">>,
        <<"exp2_f64", "exp2_f64">>,
        <<"ln_f64", "ln_f64">>,
        <<"log2_f64", "log2_f64">>,
        <<"log10_f64", "log10_f64">>,
        <<"sin_f64", "sin_f64">>,
        <<"cos_f64", "cos_f64">>,
        <<"tan_f64", "tan_f64">>,
        <<"asin_f64", "asin_f64">>,
        <<"acos_f64", "acos_f64">>,
        <<"atan_f64", "atan_f64">>,
        <<"pow_f64", "pow_f64">>,
        <<"log_f64", "log_f64">>,
        <<"truncate_i64_to_i32", "truncate_i64_to_i32">>,
        <<"extend_i32_s_to_i64", "extend_i32_s_to_i64">>,
        <<"extend_i32_u_to_i64", "extend_i32_u_to_i64">>,
        <<"demote_f64_to_f32", "demote_f64_to_f32">>,
        <<"promote_f32_to_f64", "promote_f32_to_f64">>,
        <<"convert_f32_to_i32_s", "convert_f32_to_i32_s">>,
        <<"convert_f32_to_i32_u", "convert_f32_to_i32_u">>,
        <<"convert_f64_to_i32_s", "convert_f64_to_i32_s">>,
        <<"convert_f64_to_i32_u", "convert_f64_to_i32_u">>,
        <<"convert_f32_to_i64_s", "convert_f32_to_i64_s">>,
        <<"convert_f32_to_i64_u", "convert_f32_to_i64_u">>,
        <<"convert_f64_to_i64_s", "convert_f64_to_i64_s">>,
        <<"convert_f64_to_i64_u", "convert_f64_to_i64_u">>,
        <<"convert_i32_s_to_f32", "convert_i32_s_to_f32">>,
        <<"convert_i32_u_to_f32", "convert_i32_u_to_f32">>,
        <<"convert_i64_s_to_f32", "convert_i64_s_to_f32">>,
        <<"convert_i64_u_to_f32", "convert_i64_u_to_f32">>,
        <<"convert_i32_s_to_f64", "convert_i32_s_to_f64">>,
        <<"convert_i32_u_to_f64", "convert_i32_u_to_f64">>,
        <<"convert_i64_s_to_f64", "convert_i64_s_to_f64">>,
        <<"convert_i64_u_to_f64", "convert_i64_u_to_f64">>,
        <<"eqz_i32", "eqz_i32">>,
        <<"nez_i32", "nez_i32">>,
        <<"eq_i32", "eq_i32">>,
        <<"ne_i32", "ne_i32">>,
        <<"lt_i32_s", "lt_i32_s">>,
        <<"lt_i32_u", "lt_i32_u">>,
        <<"gt_i32_s", "gt_i32_s">>,
        <<"gt_i32_u", "gt_i32_u">>,
        <<"le_i32_s", "le_i32_s">>,
        <<"le_i32_u", "le_i32_u">>,
        <<"ge_i32_s", "ge_i32_s">>,
        <<"ge_i32_u", "ge_i32_u">>,
        <<"eqz_i64", "eqz_i64">>,
        <<"nez_i64", "nez_i64">>,
        <<"eq_i64", "eq_i64">>,
        <<"ne_i64", "ne_i64">>,
        <<"lt_i64_s", "lt_i64_s">>,
        <<"lt_i64_u", "lt_i64_u">>,
        <<"gt_i64_s", "gt_i64_s">>,
        <<"gt_i64_u", "gt_i64_u">>,
        <<"le_i64_s", "le_i64_s">>,
        <<"le_i64_u", "le_i64_u">>,
        <<"ge_i64_s", "ge_i64_s">>,
        <<"ge_i64_u", "ge_i64_u">>,
        <<"eq_f32", "eq_f32">>,
        <<"ne_f32", "ne_f32">>,
        <<"lt_f32", "lt_f32">>,
        <<"gt_f32", "gt_f32">>,
        <<"le_f32", "le_f32">>,
        <<"ge_f32", "ge_f32">>,
        <<"eq_f64", "eq_f64">>,
        <<"ne_f64", "ne_f64">>,
        <<"lt_f64", "lt_f64">>,
        <<"gt_f64", "gt_f64">>,
        <<"le_f64", "le_f64">>,
        <<"ge_f64", "ge_f64">>,
        <<"end", "end">>,
        <<"block", "block">>,
        <<"break_", "break">>,
        <<"recur", "recur">>,
        <<"block_alt", "block_alt">>,
        <<"break_alt", "break_alt">>,
        <<"block_nez", "block_nez">>,
        <<"call", "call">>,
        <<"call_dynamic", "call_dynamic">>,
        <<"envcall", "envcall">>,
        <<"syscall", "syscall">>,
        <<"extcall", "extcall">>,
        <<"memory_allocate", "memory_allocate">>,
        <<"memory_resize", "memory_resize">>,
        <<"memory_free", "memory_free">>,
        <<"memory_fill", "memory_fill">>,
        <<"memory_copy", "memory_copy">>,
        <<"terminate", "terminate">>,
        <<"get_function", "get_function">>,
        <<"get_data", "get_data">>,
        <<"host_addr_function", "host_addr_function">>,
        <<"host_addr_function_dynamic", "host_addr_function_dynamic">>,
        <<"host_addr_data", "host_addr_data">>,
        <<"host_addr_data_extend", "host_addr_data_extend">>,
        <<"host_addr_data_dynamic", "host_addr_data_dynamic">>
    >>

\* get_name of the opcode at an index of the enum: the match is on the
\* variant.
get_name(i) ==
    LET arm == CHOOSE k \in DOMAIN GetNameArms : GetNameArms[k][1] = Opcodes[i].name
    IN  GetNameArms[arm][2]

\* The arms of the match of from_name, in order: <<name, variant>>.
FromNameArms ==
    <<
        <<"nop", "nop">>,
        <<"imm_i32", "imm_i32">>,
        <<"imm_i64", "imm_i64">>,
        <<"imm_f32", "imm_f32">>,
        <<"imm_f64", "imm_f64">>,
        <<"local_load_i64", "local_load_i64">>,
        <<"local_load_i32_s", "local_load_i32_s">>,
        <<"local_load_i32_u", "local_load_i32_u">>,
        <<"local_load_i16_s", "local_load_i16_s">>,
        <<"local_load_i16_u", "local_load_i16_u">>,
        <<"local_load_i8_s", "local_load_i8_s">>,
        <<"local_load_i8_u", "local_load_i8_u">>,
        <<"local_load_f64", "local_load_f64">>,
        <<"local_load_f32", "local_load_f32">>,
        <<"local_store_i64", "local_store_i64">>,
        <<"local_store_i32", "local_store_i32">>,
        <<"local_store_i16", "local_store_i16">>,
        <<"local_store_i8", "local_store_i8">>,
        <<"local_store_f64", "local_store_f64">>,
        <<"local_store_f32", "local_store_f32">>,
        <<"data_load_i64", "data_load_i64">>,
        <<"data_load_i32_s", "data_load_i32_s">>,
        <<"data_load_i32_u", "data_load_i32_u">>,
        <<"data_load_i16_s", "data_load_i16_s">>,
        <<"data_load_i16_u", "data_load_i16_u">>,
        <<"data_load_i8_s", "data_load_i8_s">>,
        <<"data_load_i8_u", "data_load_i8_u">>,
        <<"data_load_f64", "data_load_f64">>,
        <<"data_load_f32", "data_load_f32">>,
        <<"data_store_i64", "data_store_i64">>,
        <<"data_store_i32", "data_store_i32">>,
        <<"data_store_i16", "data_store_i16">>,
        <<"data_store_i8", "data_store_i8">>,
        <<"data_store_f64", "data_store_f64">>,
        <<"data_store_f32", "data_store_f32">>,
        <<"data_load_extend_i64", "data_load_extend_i64">>,
        <<"data_load_extend_i32_s", "data_load_extend_i32_s">>,
        <<"data_load_extend_i32_u", "data_load_extend_i32_u">>,
        <<"data_load_extend_i16_s", "data_load_extend_i16_s">>,
        <<"data_load_extend_i16_u", "data_load_extend_i16_u">>,
        <<"data_load_extend_i8_s", "data_load_extend_i8_s">>,
        <<"data_load_extend_i8_u", "data_load_extend_i8_u">>,
        <<"data_load_extend_f64", "data_load_extend_f64">>,
        <<"data_load_extend_f32", "data_load_extend_f32">>,
        <<"data_store_extend_i64", "data_store_extend_i64">>,
        <<"data_store_extend_i32", "data_store_extend_i32">>,
        <<"data_store_extend_i16", "data_store_extend_i16">>,
        <<"data_store_extend_i8", "data_store_extend_i8">>,
        <<"data_store_extend_f64", "data_store_extend_f64">>,
        <<"data_store_extend_f32", "data_store_extend_f32">>,
        <<"data_load_dynamic_i64", "data_load_dynamic_i64">>,
        <<"data_load_dynamic_i32_s", "data_load_dynamic_i32_s">>,
        <<"data_load_dynamic_i32_u", "data_load_dynamic_i32_u">>,
        <<"data_load_dynamic_i16_s", "data_load_dynamic_i16_s">>,
        <<"data_load_dynamic_i16_u", "data_load_dynamic_i16_u">>,
        <<"data_load_dynamic_i8_s", "data_load_dynamic_i8_s">>,
        <<"data_load_dynamic_i8_u", "data_load_dynamic_i8_u">>,
        <<"data_load_dynamic_f64", "data_load_dynamic_f64">>,
        <<"data_load_dynamic_f32", "data_load_dynamic_f32">>,
        <<"data_store_dynamic_i64", "data_store_dynamic_i64">>,
        <<"data_store_dynamic_i32", "data_store_dynamic_i32">>,
        <<"data_store_dynamic_i16", "data_store_dynamic_i16">>,
        <<"data_store_dynamic_i8", "data_store_dynamic_i8">>,
        <<"data_store_dynamic_f64", "data_store_dynamic_f64">>,
        <<"data_store_dynamic_f32", "data_store_dynamic_f32">>,
        <<"add_i32", "add_i32">>,
        <<"sub_i32", "sub_i32">>,
        <<"add_imm_i32", "add_imm_i32">>,
        <<"sub_imm_i32", "sub_imm_i32">>,
        <<"mul_i32", "mul_i32">>,
        <<"div_i32_s", "div_i32_s">>,
        <<"div_i32_u", "div_i32_u">>,
        <<"rem_i32_s", "rem_i32_s">>,
        <<"rem_i32_u", "rem_i32_u">>,
        <<"add_i64", "add_i64">>,
        <<"sub_i64", "sub_i64">>,
        <<"add_imm_i64", "add_imm_i64">>,
        <<"sub_imm_i64", "sub_imm_i64">>,
        <<"mul_i64", "mul_i64">>,
        <<"div_i64_s", "div_i64_s">>,
        <<"div_i64_u", "div_i64_u">>,
        <<"rem_i64_s", "rem_i64_s">>,
        <<"rem_i64_u", "rem_i64_u">>,
        <<"add_f32", "add_f32">>,
        <<"sub_f32", "sub_f32">>,
        <<"mul_f32", "mul_f32">>,
        <<"div_f32", "div_f32">>,
        <<"add_f64", "add_f64">>,
        <<"sub_f64", "sub_f64">>,
        <<"mul_f64", "mul_f64">>,
        <<"div_f64", "div_f64">>,
        <<"and", "and">>,
        <<"or", "or">>,
        <<"xor", "xor">>,
        <<"not", "not">>,
        <<"count_leading_zeros_i32", "count_leading_zeros_i32">>,
        <<"count_leading_ones_i32", "count_leading_ones_i32">>,
        <<"count_trailing_zeros_i32", "count_trailing_zeros_i32">>,
        <<"count_ones_i32", "count_ones_i32">>,
        <<"shift_left_i32", "shift_left_i32">>,
        <<"shift_right_i32_s", "shift_right_i32_s">>,
        <<"shift_right_i32_u", "shift_right_i32_u">>,
        <<"rotate_left_i32", "rotate_left_i32">>,
        <<"rotate_right_i32", "rotate_right_i32">>,
        <<"count_leading_zeros_i64", "count_leading_zeros_i64">>,
        <<"count_leading_ones_i64", "count_leading_ones_i64">>,
        <<"count_trailing_zeros_i64", "count_trailing_zeros_i64">>,
        <<"count_ones_i64", "count_ones_i64">>,
        <<"shift_left_i64", "shift_left_i64">>,
        <<"shift_right_i64_s", "shift_right_i64_s">>,
        <<"shift_right_i64_u", "shift_right_i64_u">>,
        <<"rotate_left_i64", "rotate_left_i64">>,
        <<"rotate_right_i64", "rotate_right_i64">>,
        <<"abs_i32", "abs_i32">>,
        <<"neg_i32", "neg_i32">>,
        <<"abs_i64", "abs_i64">>,
        <<"neg_i64", "neg_i64">>,
        <<"abs_f32", "abs_f32">>,
        <<"neg_f32", "neg_f32">>,
        <<"copysign_f32", "copysign_f32">>,
        <<"sqrt_f32", "sqrt_f32">>,
        <<"min_f32", "min_f32">>,
        <<"max_f32", "max_f32">>,
        <<"ceil_f32", "ceil_f32">>,
        <<"floor_f32", "floor_f32">>,
        <<"round_half_away_from_zero_f32", "round_half_away_from_zero_f32">>,
        <<"round_half_to_even_f32", "round_half_to_even_f32">>,
        <<"trunc_f32", "trunc_f32">>,
        <<"fract_f32", "fract_f32">>,
        <<"cbrt_f32", "cbrt_f32">>,
        <<"exp_f32", "exp_f32">>,
        <<"exp2_f32", "exp2_f32">>,
        <<"ln_f32", "ln_f32">>,
        <<"log2_f32", "log2_f32">>,
        <<"log10_f32", "log10_f32">>,
        <<"sin_f32", "sin_f32">>,
        <<"cos_f32", "cos_f32">>,
        <<"tan_f32", "tan_f32">>,
        <<"asin_f32", "asin_f32">>,
        <<"acos_f32", "acos_f32">>,
        <<"atan_f32", "atan_f32">>,
        <<"pow_f32", "pow_f32">>,
        <<"log_f32", "log_f32">>,
        <<"abs_f64", "abs_f64">>,
        <<"neg_f64", "neg_f64">>,
        <<"copysign_f64", "copysign_f64">>,
        <<"sqrt_f64", "sqrt_f64">>,
        <<"min_f64", "min_f64">>,
        <<"max_f64", "max_f64">>,
        <<"ceil_f64", "ceil_f64">>,
        <<"floor_f64", "floor_f64">>,
        <<"round_half_away_from_zero_f64", "round_half_away_from_zero_f64">>,
        <<"round_half_to_even_f64", "round_half_to_even_f64">>,
        <<"trunc_f64", "trunc_f64">>,
        <<"fract_f64", "fract_f64">>,
        <<"cbrt_f64", "cbrt_f64">>,
        <<"exp_f64", "exp_f64">>,
        <<"exp2_f64", "exp2_f64">>,
        <<"ln_f64", "ln_f64">>,
        <<"log2_f64", "log2_f64">>,
        <<"log10_f64", "log10_f64">>,
        <<"sin_f64", "sin_f64">>,
        <<"cos_f64", "cos_f64">>,
        <<"tan_f64", "tan_f64">>,
        <<"asin_f64", "asin_f64">>,
        <<"acos_f64", "acos_f64">>,
        <<"atan_f64", "atan_f64">>,
        <<"pow_f64", "pow_f64">>,
        <<"log_f64", "log_f64">>,
        <<"truncate_i64_to_i32", "truncate_i64_to_i32">>,
        <<"extend_i32_s_to_i64", "extend_i32_s_to_i64">>,
        <<"extend_i32_u_to_i64", "extend_i32_u_to_i64">>,
        <<"demote_f64_to_f32", "demote_f64_to_f32">>,
        <<"promote_f32_to_f64", "promote_f32_to_f64">>,
        <<"convert_f32_to_i32_s", "convert_f32_to_i32_s">>,
        <<"convert_f32_to_i32_u", "convert_f32_to_i32_u">>,
        <<"convert_f64_to_i32_s", "convert_f64_to_i32_s">>,
        <<"convert_f64_to_i32_u", "convert_f64_to_i32_u">>,
        <<"convert_f32_to_i64_s", "convert_f32_to_i64_s">>,
        <<"convert_f32_to_i64_u", "convert_f32_to_i64_u">>,
        <<"convert_f64_to_i64_s", "convert_f64_to_i64_s">>,
        <<"convert_f64_to_i64_u", "convert_f64_to_i64_u">>,
        <<"convert_i32_s_to_f32", "convert_i32_s_to_f32">>,
        <<"convert_i32_u_to_f32", "convert_i32_u_to_f32">>,
        <<"convert_i64_s_to_f32", "convert_i64_s_to_f32">>,
        <<"convert_i64_u_to_f32", "convert_i64_u_to_f32">>,
        <<"convert_i32_s_to_f64", "convert_i32_s_to_f64">>,
        <<"convert_i32_u_to_f64", "convert_i32_u_to_f64">>,
        <<"convert_i64_s_to_f64", "convert_i64_s_to_f64">>,
        <<"convert_i64_u_to_f64", "convert_i64_u_to_f64">>,
        <<"eqz_i32", "eqz_i32">>,
        <<"nez_i32", "nez_i32">>,
        <<"eq_i32", "eq_i32">>,
        <<"ne_i32", "ne_i32">>,
        <<"lt_i32_s", "lt_i32_s">>,
        <<"lt_i32_u", "lt_i32_u">>,
        <<"gt_i32_s", "gt_i32_s">>,
        <<"gt_i32_u", "gt_i32_u">>,
        <<"le_i32_s", "le_i32_s">>,
        <<"le_i32_u", "le_i32_u">>,
        <<"ge_i32_s", "ge_i32_s">>,
        <<"ge_i32_u", "ge_i32_u">>,
        <<"eqz_i64", "eqz_i64">>,
        <<"nez_i64", "nez_i64">>,
        <<"eq_i64", "eq_i64">>,
        <<"ne_i64", "ne_i64">>,
        <<"lt_i64_s", "lt_i64_s">>,
        <<"lt_i64_u", "lt_i64_u">>,
        <<"gt_i64_s", "gt_i64_s">>,
        <<"gt_i64_u", "gt_i64_u">>,
        <<"le_i64_s", "le_i64_s">>,
        <<"le_i64_u", "le_i64_u">>,
        <<"ge_i64_s", "ge_i64_s">>,
        <<"ge_i64_u", "ge_i64_u">>,
        <<"eq_f32", "eq_f32">>,
        <<"ne_f32", "ne_f32">>,
        <<"lt_f32", "lt_f32">>,
        <<"gt_f32", "gt_f32">>,
        <<"le_f32", "le_f32">>,
        <<"ge_f32", "ge_f32">>,
        <<"eq_f64", "eq_f64">>,
        <<"ne_f64", "ne_f64">>,
        <<"lt_f64", "lt_f64">>,
        <<"gt_f64", "gt_f64">>,
        <<"le_f64", "le_f64">>,
        <<"ge_f64", "ge_f64">>,
        <<"end", "end">>,
        <<"block", "block">>,
        <<"break", "break_">>,
        <<"recur", "recur">>,
        <<"block_alt", "block_alt">>,
        <<"break_alt", "break_alt">>,
        <<"block_nez", "block_nez">>,
        <<"call", "call">>,
        <<"call_dynamic", "call_dynamic">>,
        <<"envcall", "envcall">>,
        <<"syscall", "syscall">>,
        <<"extcall", "extcall">>,
        <<"memory_allocate", "memory_allocate">>,
        <<"memory_resize", "memory_resize">>,
        <<"memory_free", "memory_free">>,
        <<"memory_fill", "memory_fill">>,
        <<"memory_copy", "memory_copy">>,
        <<"terminate", "terminate">>,
        <<"get_function", "get_function">>,
        <<"get_data", "get_data">>,
        <<"host_addr_function", "host_addr_function">>,
        <<"host_addr_function_dynamic", "host_addr_function_dynamic">>,
        <<"host_addr_data", "host_addr_data">>,
        <<"host_addr_data_extend", "host_addr_data_extend">>,
        <<"host_addr_data_dynamic", "host_addr_data_dynamic">>
    >>

\* What a call of from_name comes to: the opcode it returns, or the panic of
\* the last arm.
Returned(i) == [returns |-> TRUE, opcode |-> i]

Panicked == [returns |-> FALSE]

from_name(name) ==
    LET matching == {k \in DOMAIN FromNameArms : FromNameArms[k][1] = name}
    IN  IF matching = {} THEN Panicked
        ELSE LET first == CHOOSE k \in matching : \A h \in matching : k <= h
             IN  Returned(OpcodeNamed(FromNameArms[first][2]))

\* ------------------------------------------------------- instruction encoding

\* The bytes of a 16-bit and of a 32-bit two's complement number, least
\* significant byte first.
Bytes16(v) ==
    LET u == IF v < 0 THEN v + 65536 ELSE v
    IN  <<u % 256, u \div 256>>

Bytes32(v) ==
    LET low == IF v < 0 THEN v - MinI32 ELSE v      \* the low 31 bits
    IN  <<low % 256, (low \div 256) % 256, (low \div 65536) % 256,
          (low \div 16777216) + (IF v < 0 THEN 128 ELSE 0)>>

Unsigned16(b) == b[1] + 256 * b[2]

Signed16(b) == IF Unsigned16(b) >= 32768 THEN Unsigned16(b) - 65536 ELSE Unsigned16(b)

Signed32(b) ==
    LET low == b[1] + 256 * b[2] + 65536 * b[3] + 16777216 * (b[4] % 128)
    IN  IF b[4] >= 128 THEN low + MinI32 ELSE low

\* The encoding layout of an instruction whose parameters have the given
\* widths: the fields in order.
InstructionLayout(params) ==
    CASE params = <<>> -> <<"opcode">>
      [] params = <<16>> -> <<"opcode", "i16">>
      [] params = <<32>> -> <<"opcode", "padding", "i32">>
      [] params = <<16, 32>> -> <<"opcode", "i16", "i32">>
      [] params = <<16, 16, 16>> -> <<"opcode", "i16", "i16", "i16">>
      [] params = <<32, 32>> -> <<"opcode", "padding", "i32", "i32">>
      [] params = <<32, 32, 32>> -> <<"opcode", "padding", "i32", "i32", "i32">>

FieldLength(field) == IF field = "i32" THEN 4 ELSE 2

RECURSIVE LayoutLength(_)
LayoutLength(layout) ==
    IF layout = <<>> THEN 0 ELSE FieldLength(Head(layout)) + LayoutLength(Tail(layout))

\* Instruction length in bytes of the i-th opcode.
InstructionLength(i) == LayoutLength(InstructionLayout(Opcodes[i].params))

\* The fields of `layout` as bytes: the opcode value, zero padding, and the
\* parameter values in order.
RECURSIVE EncodeFields(_, _, _)
EncodeFields(layout, value, values) ==
    IF layout = <<>> THEN <<>>
    ELSE CASE Head(layout) = "opcode" ->
                  Bytes16(value) \o EncodeFields(Tail(layout), value, values)
           [] Head(layout) = "padding" ->
                  <<0, 0>> \o EncodeFields(Tail(layout), value, values)
           [] Head(layout) = "i16" ->
                  Bytes16(Head(values)) \o EncodeFields(Tail(layout), value, Tail(values))
           [] Head(layout) = "i32" ->
                  Bytes32(Head(values)) \o EncodeFields(Tail(layout), value, Tail(values))

\* An encoder that leaves the padding out.
EncodeUnpadded(i, values) ==
    EncodeFields(SelectSeq(InstructionLayout(Opcodes[i].params), LAMBDA f : f # "padding"),
                 OpcodeValue[i], values)

\* The bytes of the i-th opcode with the given parameter values.
Encode(i, values) ==
    EncodeFields(InstructionLayout(Opcodes[i].params), OpcodeValue[i], values)

\* The parameter values read from `buffer` after byte `at`, field by field.
RECURSIVE DecodeFields(_, _, _)
DecodeFields(layout, buffer, at) ==
    IF layout = <<>> THEN <<>>
    ELSE LET rest == DecodeFields(Tail(layout), buffer, at + FieldLength(Head(layout)))
         IN  CASE Head(layout) \in {"opcode", "padding"} -> rest
               [] Head(layout) = "i16" -> <<Signed16(SubSeq(buffer, at + 1, at + 2))>> \o rest
               [] Head(layout) = "i32" -> <<Signed32(SubSeq(buffer, at + 1, at + 4))>> \o rest

Malformed == [status |-> "MalformedInstruction", opcode |-> 0, params |-> <<>>, length |-> 0]

Decoded(i, values, length) ==
    [status |-> "ok", opcode |-> i, params |-> values, length |-> length]

\* A decoder that only compares the opcode value with MAX_OPCODE_NUMBER, and
\* takes a value without an opcode for an instruction without parameters.
DecodeRangeOnly(buffer, offset) ==
    IF Len(buffer) - offset < 2 THEN Malformed
    ELSE LET value == Unsigned16(SubSeq(buffer, offset + 1, offset + 2))
             known == {i \in OpcodeIndexes : OpcodeValue[i] = value}
         IN  IF value >= MAX_OPCODE_NUMBER THEN Malformed
             ELSE IF known = {} THEN Decoded(0, <<>>, 2)
             ELSE LET i == CHOOSE i \in known : TRUE
                  IN  IF Len(buffer) - offset < InstructionLength(i) THEN Malformed
                      ELSE Decoded(i, DecodeFields(InstructionLayout(Opcodes[i].params),
                                                   buffer, offset),
                                   InstructionLength(i))

\* The instruction at byte `offset` of `buffer`: the opcode (its position in
\* the enum), the parameter values and the length, found through the opcode's
\* layout; MalformedInstruction when the value is no opcode or the buffer ends
\* before the instruction does.
Decode(buffer, offset) ==
    IF Len(buffer) - offset < 2 THEN Malformed
    ELSE LET value == Unsigned16(SubSeq(buffer, offset + 1, offset + 2))
             known == {i \in OpcodeIndexes : OpcodeValue[i] = value}
         IN  IF known = {} THEN Malformed
             ELSE LET i == CHOOSE i \in known : TRUE
                  IN  IF Len(buffer) - offset < InstructionLength(i) THEN Malformed
                      ELSE Decoded(i, DecodeFields(InstructionLayout(Opcodes[i].params),
                                                   buffer, offset),
                                   InstructionLength(i))

\* ------------------------------------------------- floating-point numbers

\* The bytes, least significant first, of the f32 with the given sign bit,
\* exponent field (8 bits) and fraction field (23 bits).
F32Bytes(sign, exponent, fraction) ==
    <<fraction % 256, (fraction \div 256) % 256,
      (fraction \div 65536) + (exponent % 2) * 128,
      (exponent \div 2) + sign * 128>>

\* The same for an f64: exponent field of 11 bits, fraction field of 52 bits
\* given as its top 4 bits and its low 6 bytes.
F64Bytes(sign, exponent, top, low) ==
    low \o <<(exponent % 16) * 16 + top, (exponent \div 16) + sign * 128>>

\* The fields of a pattern of 4 (f32) or 8 (f64) bytes.
SignBit(bytes) == bytes[Len(bytes)] \div 128

ExponentField(bytes) ==
    IF Len(bytes) = 4 THEN (bytes[4] % 128) * 2 + bytes[3] \div 128
    ELSE (bytes[8] % 128) * 16 + bytes[7] \div 16

FractionIsZero(bytes) ==
    IF Len(bytes) = 4 THEN bytes[1] = 0 /\ bytes[2] = 0 /\ bytes[3] % 128 = 0
    ELSE (\A j \in 1..6 : bytes[j] = 0) /\ bytes[7] % 16 = 0

\* The largest exponent field: all ones.
ExponentOnes(bytes) == IF Len(bytes) = 4 THEN 255 ELSE 2047

\* The variant of a pattern, by the table of supported variants.
Variant(bytes) ==
    LET e == ExponentField(bytes)
    IN  IF e >= 1 /\ e <= ExponentOnes(bytes) - 1 THEN "normal"
        ELSE IF e = 0 THEN (IF ~FractionIsZero(bytes) THEN "subnormal"
                            ELSE IF SignBit(bytes) = 0 THEN "+0" ELSE "-0")
        ELSE IF ~FractionIsZero(bytes) THEN "NaN"
        ELSE IF SignBit(bytes) = 0 THEN "+Infinity" ELSE "-Infinity"

SupportedVariants == {"normal", "+0", "-0", "subnormal"}

\* A check that looks at the exponent bits of the most significant byte only.
LoadFloatHighByteOnly(bytes) ==
    IF bytes[Len(bytes)] % 128 = 127 THEN [status |-> "fail", bytes |-> <<>>]
    ELSE [status |-> "ok", bytes |-> bytes]

\* Loading a pattern as a floating-point number: the checks on its exponent.
LoadFloat(bytes) ==
    LET e == ExponentField(bytes)
    IN  IF e >= 1 /\ e <= ExponentOnes(bytes) - 1 THEN [status |-> "ok", bytes |-> bytes]
        ELSE IF e = 0 THEN [status |-> "ok", bytes |-> bytes]
        ELSE [status |-> "fail", bytes |-> <<>>]

\* ------------------------------------------------- remainder and modulus

Abs(x) == IF x < 0 THEN 0 - x ELSE x

\* a / b rounded toward zero, and rounded down to negative infinity (b # 0).
Trunc(a, b) ==
    IF (a < 0) = (b < 0) THEN Abs(a) \div Abs(b) ELSE 0 - (Abs(a) \div Abs(b))

Floor(a, b) == IF b > 0 THEN a \div b ELSE (0 - a) \div (0 - b)

\* a mod b = a - b * floor(a / b)
Modulus(a, b) == a - b * Floor(a, b)

\* A remainder that rounds the quotient down.
RemainderFloored(a, b) == a - b * Floor(a, b)

\* remainder(a, b) = a - b * trunc(a / b)
Remainder(a, b) == a - b * Trunc(a, b)

\* ------------------------------------------------------ EffectiveVersion

\* A u64 is kept as its four 16-bit limbs, least significant first: the
\* number limbs[1] + limbs[2] * 2^16 + limbs[3] * 2^32 + limbs[4] * 2^48.
RECURSIVE BitsOr(_, _, _)
BitsOr(a, b, bits) ==
    IF bits = 0 THEN 0
    ELSE (IF a % 2 = 1 \/ b % 2 = 1 THEN 1 ELSE 0) + 2 * BitsOr(a \div 2, b \div 2, bits - 1)

RECURSIVE BitsAnd(_, _, _)
BitsAnd(a, b, bits) ==
    IF bits = 0 THEN 0
    ELSE (IF a % 2 = 1 /\ b % 2 = 1 THEN 1 ELSE 0) + 2 * BitsAnd(a \div 2, b \div 2, bits - 1)

\* x | y, x & y, x << 16, x >> 16 and x >> 32 on u64.
Or64(x, y) == [k \in 1..4 |-> BitsOr(x[k], y[k], 16)]

And64(x, y) == [k \in 1..4 |-> BitsAnd(x[k], y[k], 16)]

Shl16(x) == <<0, x[1], x[2], x[3]>>

Shr16(x) == <<x[2], x[3], x[4], 0>>

Shr32(x) == Shr16(Shr16(x))

\* `v as u64` for a u16, and `x as u16` for a u64.
U16AsU64(v) == <<v, 0, 0, 0>>

U64AsU16(x) == x[1]

Mask16 == U16AsU64(65535)

EffectiveVersion(major, minor, patch) == [major |-> major, minor |-> minor, patch |-> patch]

\* to_u64 without the second shift.
ToU64ShiftedOnce(v) ==
    Or64(Or64(Shl16(U16AsU64(v.major)), U16AsU64(v.minor)), U16AsU64(v.patch))

to_u64(v) ==
    LET value0 == U16AsU64(v.major)
        value1 == Or64(Shl16(value0), U16AsU64(v.minor))
        value2 == Or64(Shl16(value1), U16AsU64(v.patch))
    IN  value2

from_u64(value) ==
    LET patch == U64AsU16(And64(value, Mask16))
        minor == U64AsU16(And64(Shr16(value), Mask16))
        major == U64AsU16(And64(Shr32(value), Mask16))
    IN  EffectiveVersion(major, minor, patch)

\* The comparison of the numbers truncated to their lowest 16 bits.
U64PartialCmpLowLimb(x, y) ==
    IF x[1] = y[1] THEN "Equal"
    ELSE IF x[1] < y[1] THEN "Less" ELSE "Greater"

\* u64::partial_cmp: the limbs are compared from the most significant on.
U64PartialCmp(x, y) ==
    IF \A k \in 1..4 : x[k] = y[k] THEN "Equal"
    ELSE LET k == CHOOSE j \in 1..4 : x[j] # y[j] /\ \A h \in (j + 1)..4 : x[h] = y[h]
         IN  IF x[k] < y[k] THEN "Less" ELSE "Greater"

\* partial_cmp on the version numbers taken limb by limb from the least
\* significant on.
PartialCmpLowFirst(a, b) ==
    LET x == to_u64(a)
        y == to_u64(b)
    IN  IF \A k \in 1..4 : x[k] = y[k] THEN "Equal"
        ELSE LET k == CHOOSE j \in 1..4 : x[j] # y[j] /\ \A h \in 1..(j - 1) : x[h] = y[h]
             IN  IF x[k] < y[k] THEN "Less" ELSE "Greater"

partial_cmp(a, b) == U64PartialCmp(to_u64(a), to_u64(b))

\* The == of the derived PartialEq.
Eq(a, b) == a.major = b.major /\ a.minor = b.minor /\ a.patch = b.patch

\* The zero-major branch with the minor versions compared as in the normal
\* branch.
ZeroMajorComparesMinor(a, other) ==
    IF a.minor > other.minor THEN "GreaterThan"
    ELSE IF a.minor < other.minor THEN "LessThan"
    ELSE IF a.patch > other.patch THEN "GreaterThan"
    ELSE IF a.patch < other.patch THEN "LessThan"
    ELSE "Equals"

\* compatible, the branch of a zero major version.
CompatibleZeroMajor(a, other) ==
    IF a.minor # other.minor THEN "Conflict"
    ELSE IF a.patch > other.patch THEN "GreaterThan"
    ELSE IF a.patch < other.patch THEN "LessThan"
    ELSE "Equals"

\* The normal branch deciding by the patch version first.
NormalMajorPatchFirst(a, other) ==
    IF a.patch > other.patch THEN "GreaterThan"
    ELSE IF a.patch < other.patch THEN "LessThan"
    ELSE IF a.minor > other.minor THEN "GreaterThan"
    ELSE IF a.minor < other.minor THEN "LessThan"
    ELSE "Equals"

\* compatible, the branch of a normal major version.
CompatibleNormalMajor(a, other) ==
    IF a.minor > other.minor THEN "GreaterThan"
    ELSE IF a.minor < other.minor THEN "LessThan"
    ELSE IF a.patch > other.patch THEN "GreaterThan"
    ELSE IF a.patch < other.patch THEN "LessThan"
    ELSE "Equals"

\* compatible reporting a conflict only for a smaller major version.
CompatibleNewerMajor(a, other) ==
    IF a.major < other.major THEN "Conflict"
    ELSE IF a.major = 0 THEN CompatibleZeroMajor(a, other)
    ELSE CompatibleNormalMajor(a, other)

\* compatible taking the zero-major branch before the major versions are
\* compared.
CompatibleZeroMajorFirst(a, other) ==
    IF a.major = 0 THEN CompatibleZeroMajor(a, other)
    ELSE IF a.major # other.major THEN "Conflict"
    ELSE CompatibleNormalMajor(a, other)

compatible(a, other) ==
    IF a.major # other.major THEN "Conflict"
    ELSE IF a.major = 0 THEN CompatibleZeroMajor(a, other)
    ELSE CompatibleNormalMajor(a, other)

\* ------------------------------------------- applying the functions

\* Parameter values an instruction is encoded with.
I16Values == {0 - 32768, 0 - 1, 0, 258, 32767}

I32Values == {MinI32, 0 - 1, 0, 1, 16909060, MaxI32}

ParamValues(width) == IF width = 16 THEN I16Values ELSE I32Values

RECURSIVE ParamTuples(_)
ParamTuples(widths) ==
    IF widths = <<>> THEN {<<>>}
    ELSE {<<v>> \o t : v \in ParamValues(Head(widths)), t \in ParamTuples(Tail(widths))}

CodeRequest(fn, i, values, bytes, offset, stage) ==
    [fn |-> fn, opcode |-> i, params |-> values, bytes |-> bytes, offset |-> offset,
     stage |-> stage, decoded |-> Malformed]

\* Every opcode with every tuple of parameter values, to be encoded and decoded.
RoundTripRequests ==
    UNION {{CodeRequest("roundtrip", i, t, <<>>, 0, "new") : t \in ParamTuples(Opcodes[i].params)}
           : i \in OpcodeIndexes}

\* Buffers handed to the decoder: an instruction cut after its first k bytes
\* (not cut when k is its length), alone or after two `nop`s, decoded where
\* the instruction starts and where the `nop`s start.
AllOnes(widths) == [j \in 1..Len(widths) |-> 0 - 1]

TwoNops == Encode(OpcodeNamed("nop"), <<>>) \o Encode(OpcodeNamed("nop"), <<>>)

CutRequests ==
    UNION {{CodeRequest("decode", i, AllOnes(Opcodes[i].params),
                        prefix \o SubSeq(Encode(i, AllOnes(Opcodes[i].params)), 1, k),
                        offset, "encoded")
            : k \in 0..Len(Encode(i, AllOnes(Opcodes[i].params))), prefix \in {<<>>, TwoNops},
              offset \in {0, 2, Len(TwoNops)}}
           : i \in OpcodeIndexes}

\* Buffers that start with a 16-bit value, which may be no opcode, followed by
\* enough bytes for the longest instruction.
OpcodeCandidates == 0..(MAX_OPCODE_NUMBER + 255) \cup {32768, 65535}

ValueRequests ==
    {CodeRequest("decode", 0, <<>>, Bytes16(v) \o [j \in 1..14 |-> 0], 0, "encoded")
     : v \in OpcodeCandidates}

DecodeRequests == {r \in CutRequests : r.offset <= Len(r.bytes)} \cup ValueRequests

\* Patterns handed to the floating-point loads: both signs, the exponent
\* fields around the ends of the range, fractions with the lowest, the
\* highest or all bits set.
F32Patterns ==
    {F32Bytes(sign, e, f) : sign \in {0, 1}, e \in {0, 1, 127, 128, 129, 254, 255},
                            f \in {0, 1, 2097152, 4194304, 8388607}}

F64Patterns ==
    {F64Bytes(sign, e, top, low) : sign \in {0, 1},
         e \in {0, 1, 255, 1023, 2032, 2046, 2047}, top \in {0, 8, 15},
         low \in {<<0, 0, 0, 0, 0, 0>>, <<1, 0, 0, 0, 0, 0>>, <<255, 255, 255, 255, 255, 255>>}}

LoadRequests ==
    {[fn |-> "load_float", bytes |-> b, stage |-> "new", loaded |-> [status |-> "none", bytes |-> <<>>]]
     : b \in F32Patterns \cup F64Patterns}

\* Largest magnitude of the operands of rem_i32_s.
MaxOperand == 6

RemOperands == (0 - MaxOperand)..MaxOperand

RemRequests ==
    {[fn |-> "rem_i32_s", left |-> a, right |-> b, stage |-> "new", result |-> 0]
     : a \in RemOperands, b \in RemOperands \ {0}}

\* Components of the versions handed to to_u64.
U16Samples == {0, 1, 17, 19, 23, 255, 256, 32768, 65535}

VersionRequests ==
    {[fn |-> "version", version |-> EffectiveVersion(major, minor, patch), stage |-> "new",
      number |-> U16AsU64(0), back |-> EffectiveVersion(0, 0, 0)]
     : major \in U16Samples, minor \in U16Samples, patch \in U16Samples}

\* Components of the versions that are compared with one another.
CompareSamples == {0, 1, 4, 99, 65535}

CompareRequests ==
    LET versions == {EffectiveVersion(major, minor, patch)
                     : major \in CompareSamples, minor \in CompareSamples,
                       patch \in CompareSamples}
    IN  {[fn |-> "compare", left |-> a, right |-> b, stage |-> "new",
          ordering |-> "none", reverse |-> "none", result |-> "none", converse |-> "none"]
         : a \in versions, b \in versions}

NameRequests ==
    {[fn |-> "name", index |-> i, stage |-> "new", name |-> "", back |-> Panicked]
     : i \in OpcodeIndexes}

OpcodeRequests ==
    {[fn |-> "opcode", index |-> i, stage |-> "new", value |-> 0] : i \in OpcodeIndexes}

\* Longest program handed to the emitter.
MaxProgram == 3

\* Whether the i-th opcode has an i32 parameter.
HasI32Parameter(i) == \E j \in 1..Len(Opcodes[i].params) : Opcodes[i].params[j] = 32

\* An emitted instruction: the opcode, the byte offset it starts at, and
\* whether it is a `nop` the emitter inserted by itself.
Emitted(i, offset, inserted) == [opcode |-> i, offset |-> offset, inserted |-> inserted]

StreamLength(stream) ==
    IF stream = <<>> THEN 0
    ELSE stream[Len(stream)].offset + InstructionLength(stream[Len(stream)].opcode)

\* An emitter that never pads.
EmitUnaligned(stream, i) == Append(stream, Emitted(i, StreamLength(stream), FALSE))

\* The stream with the i-th opcode emitted: a `nop` goes before an instruction
\* with an i32 parameter that would not start on a 4-byte boundary.
Emit(stream, i) ==
    LET at == StreamLength(stream)
    IN  IF HasI32Parameter(i) /\ at % 4 # 0
        THEN stream \o <<Emitted(OpcodeNamed("nop"), at, TRUE),
                         Emitted(i, at + InstructionLength(OpcodeNamed("nop")), FALSE)>>
        ELSE Append(stream, Emitted(i, at, FALSE))

\* One opcode of every instruction length, and of both 64-bit layouts.
EmittedOpcodes ==
    {OpcodeNamed(n) : n \in {"nop", "end", "add_imm_i32", "imm_i32", "local_load_i32_s",
                             "block", "block_alt"}}

Programs == UNION {[1..n -> EmittedOpcodes] : n \in 1..MaxProgram}

EmitRequests ==
    {[fn |-> "emit", program |-> p, next |-> 1, stream |-> <<>>] : p \in Programs}

\* The machine does not run while a function is applied.
MachineIdle ==
    /\ pc = HaltAddress
    /\ frames = <<>>
    /\ operands = <<>>
    /\ last = NoInstruction
    /\ opened = [a \in Openers |-> 0]
    /\ alt = [addr |-> HaltAddress, cond |-> 0, seen |-> {}]
    /\ entered = 0
    /\ outcome = "running"

MachineStays == UNCHANGED <<pc, frames, operands, last, opened, alt, entered, outcome>>

Requests == RoundTripRequests \cup EmitRequests \cup DecodeRequests \cup LoadRequests
                \cup RemRequests \cup OpcodeRequests \cup VersionRequests
                \cup CompareRequests \cup NameRequests

IsaInit == MachineIdle /\ req \in Requests

EncodeInstruction ==
    /\ req.fn = "roundtrip"
    /\ req.stage = "new"
    /\ req' = [req EXCEPT !.bytes = Encode(req.opcode, req.params), !.stage = "encoded"]
    /\ MachineStays

DecodeInstruction ==
    /\ req.fn \in {"roundtrip", "decode"}
    /\ req.stage = "encoded"
    /\ req' = [req EXCEPT !.decoded = Decode(req.bytes, req.offset), !.stage = "decoded"]
    /\ MachineStays

\* The emitter takes the next instruction of the program.
EmitInstruction ==
    /\ req.fn = "emit"
    /\ req.next <= Len(req.program)
    /\ req' = [req EXCEPT !.stream = Emit(req.stream, req.program[req.next]),
                          !.next = req.next + 1]
    /\ MachineStays

LoadFloatingPoint ==
    /\ req.fn = "load_float"
    /\ req.stage = "new"
    /\ req' = [req EXCEPT !.loaded = LoadFloat(req.bytes), !.stage = "loaded"]
    /\ MachineStays

RemI32S ==
    /\ req.fn = "rem_i32_s"
    /\ req.stage = "new"
    /\ req' = [req EXCEPT !.result = Remainder(req.left, req.right), !.stage = "done"]
    /\ MachineStays

\* The 16-bit value of an opcode.
OpcodeAsU16 ==
    /\ req.fn = "opcode"
    /\ req.stage = "new"
    /\ req' = [req EXCEPT !.value = OpcodeValue[req.index], !.stage = "done"]
    /\ MachineStays

VersionToU64 ==
    /\ req.fn = "version"
    /\ req.stage = "new"
    /\ req' = [req EXCEPT !.number = to_u64(req.version), !.stage = "number"]
    /\ MachineStays

VersionFromU64 ==
    /\ req.fn = "version"
    /\ req.stage = "number"
    /\ req' = [req EXCEPT !.back = from_u64(req.number), !.stage = "back"]
    /\ MachineStays

\* left is compared with right, and right with left.
VersionPartialCmp ==
    /\ req.fn = "compare"
    /\ req.stage = "new"
    /\ req' = [req EXCEPT !.ordering = partial_cmp(req.left, req.right),
                          !.reverse = partial_cmp(req.right, req.left),
                          !.stage = "ordered"]
    /\ MachineStays

\* left.compatible(right) and right.compatible(left).
VersionCompatible ==
    /\ req.fn = "compare"
    /\ req.stage = "ordered"
    /\ req' = [req EXCEPT !.result = compatible(req.left, req.right),
                          !.converse = compatible(req.right, req.left),
                          !.stage = "checked"]
    /\ MachineStays

OpcodeGetName ==
    /\ req.fn = "name"
    /\ req.stage = "new"
    /\ req' = [req EXCEPT !.name = get_name(req.index), !.stage = "named"]
    /\ MachineStays

\* from_name either returns or panics: the outcome is recorded.
OpcodeFromName ==
    /\ req.fn = "name"
    /\ req.stage = "named"
    /\ req' = [req EXCEPT !.back = from_name(req.name), !.stage = "looked up"]
    /\ MachineStays

IsaNext ==
    \/ OpcodeGetName
    \/ OpcodeFromName
    \/ VersionPartialCmp
    \/ VersionCompatible
    \/ VersionToU64
    \/ VersionFromU64
    \/ OpcodeAsU16
    \/ RemI32S
    \/ EncodeInstruction
    \/ DecodeInstruction
    \/ EmitInstruction
    \/ LoadFloatingPoint

IsaSpec == IsaInit /\ [][IsaNext]_vars

\* ------------------------------------------------------------ the claims

Before == last.before

\* The frame the instruction executed last addressed with its `layers`.
LastTarget == FrameAt(Before, last.layers)

\* C1: after break(layers, off) the operand stack is the operands below the
\* target frame followed by exactly the top N operands the stack held before
\* the break, in the same order, N being the result count of the target frame
\* (the frame `layers` levels outward); every other operand pushed inside the
\* removed frames is gone. The block ()->(i32,i32) that pushed 11, 13, 17 and
\* executes break(0, ..) leaves exactly 13, 17.
C1_BreakCarriesResults ==
    /\ last.op = "break_" =>
           /\ Len(operands) = LastTarget.base + LastTarget.results
           /\ SubSeq(operands, 1, LastTarget.base)
                  = SubSeq(Before.operands, 1, LastTarget.base)
           /\ \A k \in 1..LastTarget.results :
                  operands[LastTarget.base + k]
                      = Before.operands[Len(Before.operands) - LastTarget.results + k]
    /\ (last.op = "break_" /\ last.addr = 36) =>
           /\ Before.operands = <<11, 13, 17>>
           /\ operands = <<13, 17>>

\* A break one layer out that carried two operands and discarded others pushed
\* inside the removed frames.
C1_Witness ==
    /\ last.op = "break_"
    /\ last.layers = 1
    /\ LastTarget.results = 2
    /\ Len(Before.operands) - LastTarget.base > LastTarget.results
    /\ operands = <<5, 7, 13, 17>>

\* C2 as stated: break(layers, next_inst_offset) with layers not exceeding the
\* block nesting removes exactly layers + 1 frames and continues at the address
\* of the break + next_inst_offset.
C2_BreakJumpsByOffset ==
    (last.op = "break_" /\ last.layers <= BlockNesting(Before)) =>
        /\ Len(frames) = Depth(Before) - (last.layers + 1)
        /\ pc = last.addr + last.offset

\* C2, amended: break(layers, next_inst_offset) with layers not exceeding the
\* block nesting removes exactly layers + 1 frames, leaving the frames below
\* the target as they were; when the target is a block frame it continues at
\* the address of the break + next_inst_offset, and when the target is the
\* function frame next_inst_offset is ignored and it continues at the return
\* address of that function frame.
C2_BreakFramesAndTarget ==
    (last.op = "break_" /\ last.layers <= BlockNesting(Before)) =>
        /\ Len(frames) = Depth(Before) - (last.layers + 1)
        /\ frames = SubSeq(Before.frames, 1, Len(frames))
        /\ LastTarget.kind = "block" => pc = last.addr + last.offset
        /\ LastTarget.kind = "function" => pc = LastTarget.ret

\* A break whose target is the frame of a called function: four frames are
\* removed and execution continues after the call, not at break + offset.
C2_Witness ==
    /\ last.op = "break_"
    /\ last.layers = 3
    /\ LastTarget.kind = "function"
    /\ Depth(Before) = 6
    /\ Len(frames) = 2
    /\ pc = 928
    /\ pc # last.addr + last.offset

\* The current frame holds at least as many operands as its type has results.
ResultsReady(S) ==
    /\ Depth(S) >= 1
    /\ Len(S.operands) - FrameAt(S, 0).base >= FrameAt(S, 0).results

FunctionFrames(fs) == Cardinality({i \in 1..Len(fs) : fs[i].kind = "function"})

\* C4: whenever control is at the first instruction of the tail-recursive
\* function, whether it arrived by the call or by any of the recur iterations,
\* the frame stack is as deep as when the function was entered and the current
\* frame is the function's own frame; a recur to the function frame restarts
\* the function and allocates no function frame.
C4_TailCallKeepsDepth ==
    /\ pc = FunctionStart(FnAccumulate) =>
           /\ Len(frames) = entered
           /\ FrameAt(Cur, 0).kind = "function"
           /\ FrameAt(Cur, 0).fn = FnAccumulate
    /\ (last.op = "recur" /\ LastTarget.kind = "function") =>
           /\ pc = FunctionStart(LastTarget.fn)
           /\ FunctionFrames(frames) = FunctionFrames(Before.frames)

\* The function, called from inside a block of its caller, is back at its first
\* instruction after its second recur.
C4_Witness ==
    /\ pc = FunctionStart(FnAccumulate)
    /\ last.op = "recur"
    /\ FrameAt(Cur, 0).locals = <<3, 0, 0>>
    /\ Len(frames) = 3
    /\ FunctionFrames(frames) = 2

\* C5: recur(layers, start_inst_offset) removes exactly `layers` frames: the
\* depth after it is the depth before minus `layers`, the frames below the
\* target are untouched, and the target frame is still on the frame stack and
\* is the current frame (only its local variables changed).
C5_RecurKeepsTarget ==
    last.op = "recur" =>
        /\ Len(frames) = Depth(Before) - last.layers
        /\ SubSeq(frames, 1, Len(frames) - 1)
               = SubSeq(Before.frames, 1, Len(frames) - 1)
        /\ [FrameAt(Cur, 0) EXCEPT !.locals = LastTarget.locals] = LastTarget

\* A recur one layer out: of four frames the innermost is removed and the
\* function frame stays.
C5_Witness ==
    /\ last.op = "recur"
    /\ last.layers = 1
    /\ Depth(Before) = 4
    /\ Len(frames) = 3
    /\ FrameAt(Cur, 0).kind = "function"

\* C6: after recur the first P local variables of the target frame (P being
\* its parameter count) are the top P operands the stack held before the
\* recur, in order; every other local variable of the target frame is zero;
\* and the operand stack is cut back to the operands below the target frame.
C6_RecurArguments ==
    last.op = "recur" =>
        LET P == LastTarget.params
            new == FrameAt(Cur, 0)
        IN  /\ Len(new.locals) = Len(LastTarget.locals)
            /\ \A k \in 1..P :
                   new.locals[k] = Before.operands[Len(Before.operands) - P + k]
            /\ \A k \in (P + 1)..Len(new.locals) : new.locals[k] = 0
            /\ operands = SubSeq(Before.operands, 1, LastTarget.base)

\* A recur to a function frame with two parameters whose third local variable
\* was not zero, executed with three operands inside the removed frame.
C6_Witness ==
    /\ last.op = "recur"
    /\ LastTarget.kind = "function"
    /\ LastTarget.params = 2
    /\ LastTarget.locals[3] # 0
    /\ Before.operands = <<7, 2, 1>>
    /\ FrameAt(Cur, 0).locals = <<2, 1, 0>>
    /\ operands = <<>>

\* The structure opened by the instruction at address a.
StructureAt(a) == CHOOSE st \in Structures : st.open = a

\* The instructions of the "then" arm (up to and including the break_alt) and
\* of the "else" arm (up to and including the `end`) of a block_alt structure.
ThenArm(st) == {a \in CodeAddresses : st.open < a /\ a <= st.alt}

ElseArm(st) == {a \in CodeAddresses : st.alt < a /\ a <= st.end}

\* The condition the instruction executed last found on top of the stack.
LastCond == Before.operands[Len(Before.operands)]

\* C7 as stated: block_alt pops one condition operand; if it is zero no frame
\* is created, no instruction of the "then" arm is executed and execution
\* resumes at the address of the block_alt + next_inst_offset, the instruction
\* following the matching break_alt; if it is non-zero exactly one block frame
\* is pushed, execution continues with the next instruction and the "else" arm
\* is not executed.
C7_BlockAltAsStated ==
    /\ last.op = "block_alt" =>
           /\ Len(operands) = Len(Before.operands) - 1
           /\ LastCond = 0 =>
                  /\ frames = Before.frames
                  /\ pc = last.addr + last.offset
                  /\ pc = StructureAt(last.addr).alt + Length("break_alt")
           /\ LastCond # 0 =>
                  /\ Len(frames) = Depth(Before) + 1
                  /\ pc = last.addr + Length("block_alt")
    /\ alt.addr # HaltAddress =>
           /\ alt.cond = 0 => alt.seen \cap ThenArm(StructureAt(alt.addr)) = {}
           /\ alt.cond # 0 => alt.seen \cap ElseArm(StructureAt(alt.addr)) = {}

\* C7, amended: block_alt pops one condition operand and pushes exactly one
\* block frame whatever the condition is. If the condition is zero, no
\* instruction of the "then" arm is executed and execution resumes at the
\* address of the block_alt + next_inst_offset, the instruction following the
\* matching break_alt; if it is non-zero, execution continues with the next
\* instruction and the "else" arm is not executed.
C7_BlockAltCreatesFrame ==
    /\ last.op = "block_alt" =>
           /\ Len(frames) = Depth(Before) + 1
           /\ SubSeq(frames, 1, Depth(Before)) = Before.frames
           /\ FrameAt(Cur, 0).kind = "block"
           /\ Len(operands) = Len(Before.operands) - 1 - FrameAt(Cur, 0).params
           /\ operands = SubSeq(Before.operands, 1, Len(operands))
           /\ LastCond = 0 =>
                  /\ pc = last.addr + last.offset
                  /\ pc = StructureAt(last.addr).alt + Length("break_alt")
           /\ LastCond # 0 => pc = last.addr + Length("block_alt")
    /\ alt.addr # HaltAddress =>
           /\ alt.cond = 0 => alt.seen \cap ThenArm(StructureAt(alt.addr)) = {}
           /\ alt.cond # 0 => alt.seen \cap ElseArm(StructureAt(alt.addr)) = {}

\* A block_alt that found zero: it pushed a frame and jumped to the "else" arm.
C7_Witness ==
    /\ last.op = "block_alt"
    /\ LastCond = 0
    /\ Len(frames) = Depth(Before) + 1
    /\ pc = StructureAt(last.addr).alt + Length("break_alt")
    /\ pc # last.addr + Length("block_alt")

\* C8: for every structure opened by block, block_alt or block_nez and closed
\* by its matching `end`, whenever control arrives from inside the structure at
\* the instruction following that `end` (by falling through to the `end`, by a
\* break or break_alt, through the "else" arm after the zero-condition jump of
\* block_alt, or by the zero-condition jump of block_nez), the frame stack is
\* as deep as it was just before the opening instruction.
C8_StructuresBalanced ==
    \A st \in Structures :
        (/\ pc = st.end + Length("end")
         /\ st.open <= last.addr
         /\ last.addr <= st.end) =>
            /\ opened[st.open] >= 1
            /\ Len(frames) = opened[st.open]

\* The `end` of a block_alt structure, reached through the "else" arm, has
\* brought the depth back to what it was before the block_alt.
C8_Witness ==
    \E st \in Structures :
        /\ pc = st.end + Length("end")
        /\ last.op = "end"
        /\ last.addr = st.end
        /\ alt.addr = st.open
        /\ alt.cond = 0
        /\ Len(frames) = opened[st.open]
        /\ Depth(Before) = opened[st.open] + 1

\* C9: block_nez pops exactly one condition operand. If it is zero no frame is
\* created and the instruction pointer becomes the address of the block_nez +
\* next_inst_offset, the instruction following the matching `end`. If it is
\* non-zero exactly one block frame, of type ()->(), is pushed and execution
\* continues with the next instruction.
C9_BlockNez ==
    last.op = "block_nez" =>
        /\ operands = SubSeq(Before.operands, 1, Len(Before.operands) - 1)
        /\ LastCond = 0 =>
               /\ frames = Before.frames
               /\ pc = last.addr + last.offset
               /\ pc = StructureAt(last.addr).end + Length("end")
        /\ LastCond # 0 =>
               /\ Len(frames) = Depth(Before) + 1
               /\ SubSeq(frames, 1, Depth(Before)) = Before.frames
               /\ FrameAt(Cur, 0).kind = "block"
               /\ FrameAt(Cur, 0).params = 0
               /\ FrameAt(Cur, 0).results = 0
               /\ pc = last.addr + Length("block_nez")

\* A block_nez that found zero and jumped past its `end` without a new frame.
C9_Witness ==
    /\ last.op = "block_nez"
    /\ LastCond = 0
    /\ frames = Before.frames
    /\ pc = StructureAt(last.addr).end + Length("end")

\* Offsets a break_alt of the image carries.
AltOffsets ==
    {Listing[i].p0 : i \in {j \in 1..Len(Listing) : Listing[j].op = "break_alt"}}

\* C10: in every state whose current frame is a block frame holding its
\* results, break_alt(next_inst_offset) leaves the same frame stack, operand
\* stack and instruction pointer as break(0, next_inst_offset) executed at the
\* same address; and every break_alt that was executed did what
\* break(0, next_inst_offset) does.
C10_BreakAltIsBreak0 ==
    /\ (pc # HaltAddress /\ ResultsReady(Cur) /\ FrameAt(Cur, 0).kind = "block") =>
           \A off \in AltOffsets : BreakAlt(Cur, off) = Break(Cur, 0, off)
    /\ last.op = "break_alt" => Cur = Break(Before, 0, last.offset)

\* A break_alt that left a block_alt frame and carried one result out.
C10_Witness ==
    /\ last.op = "break_alt"
    /\ LastTarget.kind = "block"
    /\ LastTarget.results = 1
    /\ Len(frames) = Depth(Before) - 1
    /\ Len(operands) = LastTarget.base + 1
    /\ pc = last.addr + last.offset

\* The instruction at pc is a control instruction whose target frame is not a
\* frame of the current function.
TargetExceedsNesting ==
    /\ pc # HaltAddress
    /\ InstAt(pc).op \in ControlOps
    /\ \/ Depth(Cur) = 0
       \/ InstAt(pc).op \in {"break_", "recur"} /\ InstAt(pc).p0 > BlockNesting(Cur)

MachineUnchanged == pc' = pc /\ frames' = frames /\ operands' = operands

LayersExceedNesting ==
    /\ pc # HaltAddress
    /\ InstAt(pc).op \in LocalOps
    /\ (Depth(Cur) = 0 \/ InstAt(pc).p0 > BlockNesting(Cur))

\* The local_load / local_store at pc names a frame of the current function,
\* and an index that is not one of its slots.
IndexExceedsSlots ==
    /\ pc # HaltAddress
    /\ InstAt(pc).op \in LocalOps
    /\ Depth(Cur) > 0
    /\ InstAt(pc).p0 <= BlockNesting(Cur)
    /\ InstAt(pc).p1 >= Len(FrameAt(Cur, InstAt(pc).p0).locals)

LastIndex == InstAt(last.addr).p1

\* C12: local_load(layers, index) and local_store(layers, index) access the
\* frame exactly `layers` hops outward from the current frame (layers equal to
\* the block nesting names the function frame); a load pushes that frame's
\* slot and a store changes that slot only; an access that was executed named
\* a frame of the current function and one of its slots; layers beyond the
\* nesting end in FrameDepthExceeded, an index beyond the slots of the target
\* frame in LocalIndexOutOfRange, and neither is reported otherwise.
C12_LocalAccess ==
    /\ [](last.op \in LocalOps =>
             /\ last.layers <= BlockNesting(Before)
             /\ LastIndex < Len(LastTarget.locals)
             /\ last.layers = BlockNesting(Before) => LastTarget.kind = "function"
             /\ last.layers < BlockNesting(Before) => LastTarget.kind = "block"
             /\ last.op = "local_load_i32_s" =>
                    /\ operands = Append(Before.operands, LastTarget.locals[LastIndex + 1])
                    /\ frames = Before.frames
             /\ last.op = "local_store_i32" =>
                    /\ operands = SubSeq(Before.operands, 1, Len(Before.operands) - 1)
                    /\ frames = [Before.frames EXCEPT
                                    ![Depth(Before) - last.layers].locals[LastIndex + 1] =
                                        Before.operands[Len(Before.operands)]])
    /\ [](outcome = "FrameDepthExceeded" => LayersExceedNesting)
    /\ [](outcome = "LocalIndexOutOfRange" => IndexExceedsSlots)
    /\ [][(outcome = "running" /\ LayersExceedNesting)
             => (outcome' = "FrameDepthExceeded" /\ MachineUnchanged)]_vars
    /\ [][(outcome = "running" /\ IndexExceedsSlots)
             => (outcome' = "LocalIndexOutOfRange" /\ MachineUnchanged)]_vars

\* Inside three nested blocks, 40 has been stored through 3 layers into the
\* argument of the function and loaded back through 3 layers; the local
\* variables of the three blocks still hold 10, 20 and 30.
C12_Witness ==
    /\ last.op = "local_load_i32_s"
    /\ last.layers = 3
    /\ BlockNesting(Before) = 3
    /\ operands[Len(operands)] = 40
    /\ frames[1].kind = "function" /\ frames[1].locals = <<40>>
    /\ frames[2].locals = <<10>> /\ frames[3].locals = <<20>> /\ frames[4].locals = <<30>>

\* C13: for every opcode and every tuple of parameter values its layout
\* admits (0 to 3 parameters of 16 or 32 bits, 16, 32, 64, 96 or 128 bits in
\* all), decoding the encoded bytes returns the same opcode, the same
\* parameter values and the length of the opcode's layout, which is the
\* number of bytes encoded.
C13_DecodeEncode ==
    (req.fn = "roundtrip" /\ req.stage = "decoded") =>
        /\ req.decoded = Decoded(req.opcode, req.params, InstructionLength(req.opcode))
        /\ Len(req.bytes) = InstructionLength(req.opcode)
        /\ Len(req.bytes) * 8 \in {16, 32, 64, 96, 128}
        /\ Len(req.params) \in 0..3
        /\ \A j \in 1..Len(req.params) : Opcodes[req.opcode].params[j] \in {16, 32}

\* block_alt, with the smallest, the largest and a negative i32 as parameters,
\* has been encoded to 128 bits and decoded.
C13_Witness ==
    /\ req.fn = "roundtrip"
    /\ req.stage = "decoded"
    /\ Opcodes[req.opcode].name = "block_alt"
    /\ req.params = <<MinI32, MaxI32, 0 - 1>>
    /\ Len(req.bytes) = 16
    /\ req.decoded.status = "ok"

\* The instructions of the stream that the program asked for, in order.
Asked(stream) == SelectSeq(stream, LAMBDA e : ~e.inserted)

\* The stream is the emitted part of the program, laid out without gaps, with
\* every instruction that has an i32 parameter on a 4-byte boundary; an
\* inserted `nop` stands off a 4-byte boundary, immediately before an
\* instruction with an i32 parameter, and is the only one there.
AlignedByNops(stream, program, next) ==
    /\ Len(Asked(stream)) = next - 1
    /\ \A k \in 1..Len(Asked(stream)) : Asked(stream)[k].opcode = program[k]
    /\ \A k \in 1..Len(stream) :
           /\ stream[k].offset = StreamLength(SubSeq(stream, 1, k - 1))
           /\ HasI32Parameter(stream[k].opcode) => stream[k].offset % 4 = 0
           /\ stream[k].inserted =>
                  /\ Opcodes[stream[k].opcode].name = "nop"
                  /\ stream[k].offset % 4 # 0
                  /\ k < Len(stream)
                  /\ HasI32Parameter(stream[k + 1].opcode)
                  /\ ~stream[k + 1].inserted

Remaining == Len(req.bytes) - req.offset

ValueAtOffset == Unsigned16(SubSeq(req.bytes, req.offset + 1, req.offset + 2))

Assigned(value) == \E i \in OpcodeIndexes : OpcodeValue[i] = value

LengthDeclared(value) ==
    InstructionLength(CHOOSE i \in OpcodeIndexes : OpcodeValue[i] = value)

\* C15: decoding at a byte offset fails with MalformedInstruction whenever the
\* remaining buffer is shorter than the length declared for the opcode found
\* there, or the 16-bit value there is not an assigned opcode; a `nop` is
\* decoded as an ordinary instruction of 2 bytes, whatever follows it.
C15_MalformedInstruction ==
    (req.fn = "decode" /\ req.stage = "decoded") =>
        /\ Remaining < 2 => req.decoded = Malformed
        /\ Remaining >= 2 =>
               /\ ~Assigned(ValueAtOffset) => req.decoded = Malformed
               /\ (Assigned(ValueAtOffset) /\ Remaining < LengthDeclared(ValueAtOffset))
                      => req.decoded = Malformed
               /\ ValueAtOffset = OpcodeValue[OpcodeNamed("nop")]
                      => req.decoded = Decoded(OpcodeNamed("nop"), <<>>, 2)

\* A value below MAX_OPCODE_NUMBER that no opcode has, with 14 bytes after
\* it, was rejected.
C15_Witness ==
    /\ req.fn = "decode"
    /\ req.stage = "decoded"
    /\ Remaining = 16
    /\ ValueAtOffset < MAX_OPCODE_NUMBER
    /\ ~Assigned(ValueAtOffset)
    /\ req.decoded = Malformed

\* Every bit of the exponent field is one: the 7 low bits of the most
\* significant byte, and the top bit (f32) or the top 4 bits (f64) of the next.
ExponentAllOnes(bytes) ==
    /\ bytes[Len(bytes)] % 128 = 127
    /\ bytes[Len(bytes) - 1] \div (IF Len(bytes) = 4 THEN 128 ELSE 16)
           = (IF Len(bytes) = 4 THEN 1 ELSE 15)

\* C16: a floating-point load fails the validity check if and only if the
\* exponent field of the pattern (8 bits for f32, 11 for f64) is all ones,
\* which are exactly the NaN and +/-Infinity patterns; every other pattern
\* (normal, subnormal, +0, -0) is loaded with its bits unchanged.
C16_FloatLoadCheck ==
    (req.fn = "load_float" /\ req.stage = "loaded") =>
        /\ req.loaded.status = "fail" <=> ExponentAllOnes(req.bytes)
        /\ req.loaded.status = "fail" <=> Variant(req.bytes) \in {"NaN", "+Infinity", "-Infinity"}
        /\ req.loaded.status # "fail" =>
               /\ req.loaded = [status |-> "ok", bytes |-> req.bytes]
               /\ Variant(req.bytes) \in SupportedVariants

\* The f32 pattern with exponent field 1111 1110 and every fraction bit set
\* (the largest normal number) was loaded unchanged.
C16_Witness ==
    /\ req.fn = "load_float"
    /\ req.stage = "loaded"
    /\ req.bytes = <<255, 255, 127, 127>>
    /\ req.loaded = [status |-> "ok", bytes |-> req.bytes]

Sign(x) == IF x < 0 THEN 0 - 1 ELSE IF x > 0 THEN 1 ELSE 0

\* C17: signed remainder is truncating: for b # 0 the result r of
\* rem_i32_s(a, b) is a - b * trunc(a / b): a - r is a multiple of b, r is
\* smaller than b in magnitude, and a non-zero r has the sign of the dividend
\* a; rem(-5, 3) = -2, rem(5, -3) = 2, rem(-5, -3) = -2, where the floored
\* modulus is 1, -1, -2; the two differ exactly where r is not zero and the
\* signs of a and b differ.
C17_RemainderTruncates ==
    (req.fn = "rem_i32_s" /\ req.stage = "done") =>
        LET a == req.left
            b == req.right
            r == req.result
        IN  /\ \E q \in RemOperands :
                   /\ a = b * q + r
                   /\ Abs(q) * Abs(b) <= Abs(a)
                   /\ (Abs(q) + 1) * Abs(b) > Abs(a)
            /\ Abs(r) < Abs(b)
            /\ r # 0 => Sign(r) = Sign(a)
            /\ (a = 0 - 5 /\ b = 3) => (r = 0 - 2 /\ Modulus(a, b) = 1)
            /\ (a = 5 /\ b = 0 - 3) => (r = 2 /\ Modulus(a, b) = 0 - 1)
            /\ (a = 0 - 5 /\ b = 0 - 3) => (r = 0 - 2 /\ Modulus(a, b) = 0 - 2)
            /\ r # Modulus(a, b) <=> (r # 0 /\ Sign(a) # Sign(b))

\* rem_i32_s(-5, 3) has been computed: -2, where the modulus is 1.
C17_Witness ==
    /\ req.fn = "rem_i32_s"
    /\ req.stage = "done"
    /\ req.left = 0 - 5
    /\ req.right = 3
    /\ req.result = 0 - 2

\* C18: the high byte of every opcode is the number of the category it is
\* listed under (Fundamental 0x01 .. Machine 0x0b), for every member of every
\* category, the eight Machine opcodes included.
C18_HighByteIsCategory ==
    (req.fn = "opcode" /\ req.stage = "done") =>
        HighByte(req.value) = CategoryNumber(Opcodes[req.index].category)

\* C19: every opcode value lies in [0, MAX_OPCODE_NUMBER), and its low byte
\* is the zero-based position of the opcode within its category, so that the
\* items of a category stay below the values of the next category.
C19_ValueRangeAndPosition ==
    (req.fn = "opcode" /\ req.stage = "done") =>
        /\ req.value >= 0
        /\ req.value < MAX_OPCODE_NUMBER
        /\ LowByte(req.value) = PositionInCategory(req.index)
        /\ req.value < (CategoryNumber(Opcodes[req.index].category) + 1) * 256

\* C20: for every EffectiveVersion v, to_u64(v) is the number
\* major * 2^32 + minor * 2^16 + patch, that is the u64 whose 16-bit limbs are
\* patch, minor, major and 0 from the least significant on (and, where the
\* number fits 31 bits, that very number), and from_u64(to_u64(v)) = v.
C20_VersionNumber ==
    (req.fn = "version" /\ req.stage \in {"number", "back"}) =>
        LET v == req.version
        IN  /\ req.number = <<v.patch, v.minor, v.major, 0>>
            /\ (v.major = 0 /\ v.minor < 32768) =>
                   req.number[1] + 65536 * req.number[2] = v.minor * 65536 + v.patch
            /\ req.stage = "back" => req.back = v

\* The version 0x11.0x13.0x17 of the unit test has been turned into
\* 0x0011_0013_0017 and back.
C20_Witness ==
    /\ req.fn = "version"
    /\ req.stage = "back"
    /\ req.version = EffectiveVersion(17, 19, 23)
    /\ req.number = <<23, 19, 17, 0>>
    /\ req.back = req.version

\* The lexicographic order on (major, minor, patch).
LexLess(a, b) ==
    \/ a.major < b.major
    \/ a.major = b.major /\ a.minor < b.minor
    \/ a.major = b.major /\ a.minor = b.minor /\ a.patch < b.patch

Compared == req.fn = "compare" /\ req.stage \in {"ordered", "checked"}

\* C21: the ordering of EffectiveVersion is the lexicographic order on
\* (major, minor, patch): any two versions are ordered, a < b holds exactly
\* when the first differing component among major, minor, patch is smaller in
\* a, b > a holds exactly when a < b, and a <= b together with a >= b holds
\* exactly when a == b.
C21_OrderIsLexicographic ==
    Compared =>
        LET a == req.left
            b == req.right
        IN  /\ req.ordering \in {"Less", "Equal", "Greater"}
            /\ req.ordering = "Less" <=> LexLess(a, b)
            /\ req.ordering = "Greater" <=> LexLess(b, a)
            /\ req.ordering = "Less" <=> req.reverse = "Greater"
            /\ (req.ordering \in {"Less", "Equal"} /\ req.ordering \in {"Greater", "Equal"})
                   <=> Eq(a, b)

\* 1.65535.65535 has been compared with 4.0.0 and found smaller, although its
\* minor and patch components are larger.
C21_Witness ==
    /\ Compared
    /\ req.left = EffectiveVersion(1, 65535, 65535)
    /\ req.right = EffectiveVersion(4, 0, 0)
    /\ req.ordering = "Less"
    /\ req.reverse = "Greater"

Checked == req.fn = "compare" /\ req.stage = "checked"

ByPatch(a, b) ==
    IF a.patch > b.patch THEN "GreaterThan"
    ELSE IF a.patch < b.patch THEN "LessThan"
    ELSE "Equals"

\* C22: for all versions a and b whose major versions differ, a.compatible(b)
\* is Conflict, whatever the minor and patch components are.
C22_MajorConflict ==
    (Checked /\ req.left.major # req.right.major) =>
        /\ req.result = "Conflict"
        /\ req.converse = "Conflict"

\* 4.0.99 has been checked against 1.99.0: a conflict, in both directions.
C22_Witness ==
    /\ Checked
    /\ req.left = EffectiveVersion(4, 0, 99)
    /\ req.right = EffectiveVersion(1, 99, 0)
    /\ req.result = "Conflict"
    /\ req.converse = "Conflict"

\* C23: for all versions a and b that both have major 0, a.compatible(b) is
\* Conflict whenever the minor versions differ, and with equal minor versions
\* it is GreaterThan, LessThan or Equals as a.patch is greater than, less than
\* or equal to b.patch.
C23_ZeroMajor ==
    (Checked /\ req.left.major = 0 /\ req.right.major = 0) =>
        IF req.left.minor # req.right.minor
        THEN req.result = "Conflict"
        ELSE req.result = ByPatch(req.left, req.right)

\* 0.99.4 has been checked against 0.4.4: a conflict between the minor
\* versions of a zero major version.
C23_Witness ==
    /\ Checked
    /\ req.left = EffectiveVersion(0, 99, 4)
    /\ req.right = EffectiveVersion(0, 4, 4)
    /\ req.result = "Conflict"

\* C24: for all versions a and b with the same non-zero major version,
\* a.compatible(b) is never Conflict: it is GreaterThan if a.minor > b.minor,
\* LessThan if a.minor < b.minor, decided by the patch version only when the
\* minor versions are equal, and Equals exactly when minor and patch are both
\* equal.
C24_NormalMajor ==
    (Checked /\ req.left.major = req.right.major /\ req.left.major # 0) =>
        LET a == req.left
            b == req.right
        IN  /\ req.result # "Conflict"
            /\ a.minor > b.minor => req.result = "GreaterThan"
            /\ a.minor < b.minor => req.result = "LessThan"
            /\ a.minor = b.minor => req.result = ByPatch(a, b)
            /\ req.result = "Equals" <=> (a.minor = b.minor /\ a.patch = b.patch)

\* 1.4.99 has been checked against 1.99.0: LessThan, the minor version
\* deciding against the patch version.
C24_Witness ==
    /\ Checked
    /\ req.left = EffectiveVersion(1, 4, 99)
    /\ req.right = EffectiveVersion(1, 99, 0)
    /\ req.result = "LessThan"

\* C29: compatible is antisymmetric: for all versions a and b,
\* a.compatible(b) is GreaterThan exactly when b.compatible(a) is LessThan,
\* Conflict exactly when b.compatible(a) is Conflict, and Equals exactly when
\* a == b.
C29_CompatibleAntisymmetric ==
    Checked =>
        /\ req.result = "GreaterThan" <=> req.converse = "LessThan"
        /\ req.result = "LessThan" <=> req.converse = "GreaterThan"
        /\ req.result = "Conflict" <=> req.converse = "Conflict"
        /\ req.result = "Equals" <=> Eq(req.left, req.right)

\* 0.4.1 and 1.4.0 have been checked against each other: a conflict both
\* ways, one of the two having a zero major version.
C29_Witness ==
    /\ Checked
    /\ req.left = EffectiveVersion(0, 4, 1)
    /\ req.right = EffectiveVersion(1, 4, 0)
    /\ req.result = "Conflict"
    /\ req.converse = "Conflict"

\* C30: compatible agrees with the ordering wherever it does not report
\* Conflict: GreaterThan implies a > b, LessThan implies a < b and Equals
\* implies a == b; hence for a declared dependency d with a non-zero major
\* version, a runtime version r has r.compatible(d) in {Equals, GreaterThan}
\* exactly when r.major = d.major and r >= d.
C30_CompatibleAgreesWithOrder ==
    Checked =>
        LET r == req.left
            d == req.right
        IN  /\ req.result = "GreaterThan" => req.ordering = "Greater"
            /\ req.result = "LessThan" => req.ordering = "Less"
            /\ req.result = "Equals" => (Eq(r, d) /\ req.ordering = "Equal")
            /\ d.major # 0 =>
                   (req.result \in {"Equals", "GreaterThan"}
                        <=> (r.major = d.major /\ req.ordering \in {"Greater", "Equal"}))

\* The runtime version 1.99.99 has been checked against the declared 1.4.0:
\* it is greater, and accepted.
C30_Witness ==
    /\ Checked
    /\ req.left = EffectiveVersion(1, 99, 99)
    /\ req.right = EffectiveVersion(1, 4, 0)
    /\ req.result = "GreaterThan"
    /\ req.ordering = "Greater"

\* C28: name lookup round-trips for every opcode: from_name(get_name(op))
\* returns op without panicking, and get_name gives distinct opcodes distinct
\* names.
C28_NameRoundTrip ==
    /\ (req.fn = "name" /\ req.stage = "looked up") => req.back = Returned(req.index)
    /\ (req.fn = "name" /\ req.stage \in {"named", "looked up"}) =>
           \A j \in OpcodeIndexes \ {req.index} : get_name(j) # req.name

\* C25: `end` is equivalent to `break` with layers = 0 and
\* next_inst_offset = 8: in every state whose current frame holds its results,
\* `end` leaves the same frame stack, operand stack and instruction pointer as
\* break(0, 8) executed at the same address, and every `end` that was executed
\* did what break(0, 8) does.
C25_EndIsBreak08 ==
    /\ (pc # HaltAddress /\ ResultsReady(Cur)) => End(Cur) = Break(Cur, 0, 8)
    /\ last.op = "end" => Cur = Break(Before, 0, 8)

\* The structures the instruction at address a lies in, and the address of
\* the instruction that opens the one `layers` levels outward.
Enclosing(a) == {st \in Structures : st.open < a /\ a < st.end}

TargetOpen(a, layers) ==
    LET st == CHOOSE t \in Enclosing(a) :
                  Cardinality({u \in Enclosing(a) : u.open > t.open}) = layers
    IN  st.open

\* C26: the start_inst_offset of a recur whose target is a block is a positive
\* number equal to (address of the recur - address of the target block +
\* length of the block instruction), and the jump to the address of the recur
\* - start_inst_offset lands on the instruction immediately following the
\* target block instruction.
C26_RecurOffsetFormula ==
    (last.op = "recur" /\ LastTarget.kind = "block") =>
        LET block == TargetOpen(last.addr, last.layers)
        IN  /\ last.offset > 0
            /\ last.offset = last.addr - block + Length(InstAt(block).op)
            /\ pc = last.addr - last.offset
            /\ pc = block + Length(InstAt(block).op)

\* C27: when the target frame of a break, or the frame an `end` closes, is a
\* function frame, next_inst_offset is ignored: the function frame is removed
\* with the block frames inside it, the result operands of the function are
\* handed to the caller on top of the operands below the frame, and execution
\* continues at the instruction following the call that created the frame.
C27_FunctionTargetReturns ==
    (last.op \in {"break_", "end"} /\ LastTarget.kind = "function") =>
        /\ frames = SubSeq(Before.frames, 1, Depth(Before) - last.layers - 1)
        /\ operands = SubSeq(Before.operands, 1, LastTarget.base)
                          \o Top(Before.operands, LastTarget.results)
        /\ pc = LastTarget.ret
        /\ frames # <<>> =>
               /\ InstAt(pc - Length("call")).op = "call"
               /\ InstAt(pc - Length("call")).p0 = LastTarget.fn

\* A break three layers out, to the frame of a called function: the caller
\* has the result on its operand stack and continues after its call, which is
\* not where the offset of the break points.
C27_Witness ==
    /\ last.op = "break_"
    /\ last.layers = 3
    /\ LastTarget.kind = "function"
    /\ LastTarget.results >= 1
    /\ frames # <<>>
    /\ operands = SubSeq(Before.operands, 1, LastTarget.base)
                      \o Top(Before.operands, LastTarget.results)
    /\ InstAt(pc - Length("call")).op = "call"
    /\ pc # last.addr + last.offset
====
